---- MODULE Spec2Model ----
(***************************************************************************)
(* cloud-savegame: rule-driven discovery and ingestion of save data.       *)
(*                                                                         *)
(* Strings of the program (paths, rule templates, rule names) are          *)
(* sequences of one-character strings, so that str.startswith, the "*"     *)
(* test, glob matching and str.replace are computed character by            *)
(* character as the code computes them.  A pathlib.Path is the record      *)
(* [abs, parts]; a location of the filesystem is the sequence of the       *)
(* names from the root to the entry.                                       *)
(***************************************************************************)
EXTENDS Integers, Sequences, FiniteSets, TLC

(***************************************************************************)
(* Bounds of the model.                                                    *)
(***************************************************************************)
\* the clock stops advancing at MaxTime
MaxTime == 2
\* number of consecutive runs of main() over the same machine
MaxRuns == 2
\* symlinks followed by one path resolution before it gives up
MaxLinkDepth == 4

(***************************************************************************)
(* Strings.                                                                *)
(***************************************************************************)
RECURSIVE StartsWith(_, _)
\* str.startswith
StartsWith(s, prefix) ==
    IF prefix = <<>> THEN TRUE
    ELSE IF s = <<>> THEN FALSE
    ELSE Head(s) = Head(prefix) /\ StartsWith(Tail(s), Tail(prefix))

\* the `"*" in path` test
HasStar(s) == \E i \in 1..Len(s) : s[i] = "*"

RECURSIVE FnMatch(_, _)
\* fnmatch of one name against a pattern whose only wildcard is "*"
FnMatch(name, pat) ==
    IF pat = <<>> THEN name = <<>>
    ELSE IF Head(pat) = "*"
         THEN FnMatch(name, Tail(pat))
              \/ (name # <<>> /\ FnMatch(Tail(name), pat))
    ELSE name # <<>> /\ Head(name) = Head(pat) /\ FnMatch(Tail(name), Tail(pat))

RECURSIVE Replace(_, _, _)
\* str.replace(old, new): every non-overlapping occurrence, left to right
Replace(s, old, new) ==
    IF s = <<>> THEN <<>>
    ELSE IF StartsWith(s, old)
         THEN new \o Replace(SubSeq(s, Len(old) + 1, Len(s)), old, new)
    ELSE <<Head(s)>> \o Replace(Tail(s), old, new)

(***************************************************************************)
(* pathlib.PurePosixPath.                                                  *)
(***************************************************************************)
DOT == <<".">>
DOTDOT == <<".", ".">>

RECURSIVE SplitSlash(_, _)
\* the segments of s between "/" characters; cur is the segment being read
SplitSlash(s, cur) ==
    IF s = <<>> THEN <<cur>>
    ELSE IF Head(s) = "/" THEN <<cur>> \o SplitSlash(Tail(s), <<>>)
    ELSE SplitSlash(Tail(s), Append(cur, Head(s)))

\* Path(s): empty and "." segments are dropped, ".." segments are kept
PathOf(s) ==
    LET segs == SplitSlash(s, <<>>)
    IN  [abs   |-> s # <<>> /\ s[1] = "/",
         parts |-> SelectSeq(segs, LAMBDA x : x # <<>> /\ x # DOT)]

RECURSIVE JoinSlash(_)
JoinSlash(parts) ==
    IF parts = <<>> THEN <<>>
    ELSE IF Len(parts) = 1 THEN parts[1]
    ELSE parts[1] \o <<"/">> \o JoinSlash(Tail(parts))

\* str(path)
Str(p) ==
    IF p.abs THEN <<"/">> \o JoinSlash(p.parts)
    ELSE IF p.parts = <<>> THEN DOT
    ELSE JoinSlash(p.parts)

\* path / other : an absolute right operand replaces the left one
Join(p, q) == IF q.abs THEN q ELSE [abs |-> p.abs, parts |-> p.parts \o q.parts]

\* path / "name"
Child(p, name) == Join(p, PathOf(name))

\* path.name
NameOf(p) == IF p.parts = <<>> THEN <<>> ELSE p.parts[Len(p.parts)]

\* path.parent
ParentOf(p) ==
    IF p.parts = <<>> THEN p
    ELSE [abs |-> p.abs, parts |-> SubSeq(p.parts, 1, Len(p.parts) - 1)]

\* the absolute path of a filesystem location
AbsPath(loc) == [abs |-> TRUE, parts |-> loc]

(***************************************************************************)
(* The filesystem.  fs maps each existing location (the sequence of names  *)
(* from the root) to its node; the root <<>> is always a directory.        *)
(***************************************************************************)
NoTarget == [abs |-> FALSE, parts |-> <<>>]
\* data is a file's content: its lines; ro marks an entry the user cannot read
DirNode == [kind |-> "dir", mtime |-> 0, target |-> NoTarget, data |-> <<>>, ro |-> FALSE]
FileNode(m, d) == [kind |-> "file", mtime |-> m, target |-> NoTarget, data |-> d, ro |-> FALSE]
LinkNode(t) == [kind |-> "link", mtime |-> 0, target |-> t, data |-> <<>>, ro |-> FALSE]

ParentLoc(loc) == IF loc = <<>> THEN <<>> ELSE SubSeq(loc, 1, Len(loc) - 1)

\* loc is d itself or an entry below d
IsUnder(loc, d) == Len(loc) >= Len(d) /\ SubSeq(loc, 1, Len(d)) = d

RECURSIVE RealWalk(_, _, _, _)
\* posixpath.realpath (non-strict): symlinks are followed, ".." steps to the
\* parent of what is resolved so far, a missing component is kept as written
RealWalk(f, cur, rest, fuel) ==
    IF rest = <<>> THEN cur
    ELSE LET n  == Head(rest)
             np == Append(cur, n)
         IN  IF n = DOTDOT THEN RealWalk(f, ParentLoc(cur), Tail(rest), fuel)
             ELSE IF np \in DOMAIN f /\ f[np].kind = "link" /\ fuel > 0
                  THEN RealWalk(f, IF f[np].target.abs THEN <<>> ELSE cur,
                                f[np].target.parts \o Tail(rest), fuel - 1)
             ELSE RealWalk(f, np, Tail(rest), fuel)

NoEntry == [ok |-> FALSE, loc |-> <<>>]

RECURSIVE KernelWalk(_, _, _, _, _)
\* the kernel's path walk (stat when follow, lstat otherwise): every component
\* but the last must exist and be a directory; ok with a loc outside DOMAIN f
\* says the parent exists and the last component does not
KernelWalk(f, cur, rest, fuel, follow) ==
    IF rest = <<>> THEN [ok |-> cur \in DOMAIN f, loc |-> cur]
    ELSE IF cur \notin DOMAIN f \/ f[cur].kind # "dir" THEN NoEntry
    ELSE LET n    == Head(rest)
             np   == Append(cur, n)
             last == Len(rest) = 1
         IN  IF n = DOTDOT THEN KernelWalk(f, ParentLoc(cur), Tail(rest), fuel, follow)
             ELSE IF np \notin DOMAIN f
                  THEN IF last THEN [ok |-> TRUE, loc |-> np] ELSE NoEntry
             ELSE IF f[np].kind = "link" /\ (~last \/ follow)
                  THEN IF fuel = 0 THEN NoEntry
                       ELSE KernelWalk(f, IF f[np].target.abs THEN <<>> ELSE cur,
                                       f[np].target.parts \o Tail(rest), fuel - 1, follow)
             ELSE KernelWalk(f, np, Tail(rest), fuel, follow)

(***************************************************************************)
(* Names the program fixes, and the machine the runs happen on.            *)
(***************************************************************************)
\* args.output, resolved: /o
OutLoc == << <<"o">> >>
\* os.chdir(args.output): relative paths start here
Cwd == OutLoc
BACKUP_DIR == <<"_", "_", "b", "a", "c", "k", "u", "p", "_", "_">>
APPDATA == <<"A", "p", "p", "D", "a", "t", "a">>

StartLoc(p) == IF p.abs THEN <<>> ELSE Cwd

\* Path.resolve()
Resolve(f, p) == RealWalk(f, StartLoc(p), p.parts, MaxLinkDepth)
\* os.stat / os.lstat
Stat(f, p) == KernelWalk(f, StartLoc(p), p.parts, MaxLinkDepth, TRUE)
LStat(f, p) == KernelWalk(f, StartLoc(p), p.parts, MaxLinkDepth, FALSE)

\* a filesystem without symbolic links
IsSymlinkNever(f, p) == FALSE

Found(f, r) == r.ok /\ r.loc \in DOMAIN f
\* Path.exists, is_file, is_dir follow symlinks; is_symlink does not
Exists(f, p) == Found(f, Stat(f, p))
IsFile(f, p) == LET r == Stat(f, p) IN Found(f, r) /\ f[r.loc].kind = "file"
IsDir(f, p) == LET r == Stat(f, p) IN Found(f, r) /\ f[r.loc].kind = "dir"
IsSymlink(f, p) == LET r == LStat(f, p) IN Found(f, r) /\ f[r.loc].kind = "link"

\* the names of the entries of directory d
ChildNames(f, d) == { l[Len(l)] : l \in { x \in DOMAIN f : Len(x) = Len(d) + 1 /\ IsUnder(x, d) } }

\* Path.iterdir (names only)
IterDir(f, p) == LET r == Stat(f, p) IN IF IsDir(f, p) THEN ChildNames(f, r.loc) ELSE {}

\* the glob as a lookup of the pattern taken literally
GlobLiteral(f, p, pattern) == { n \in IterDir(f, p) : n = pattern }

\* Path.glob(pattern) with a one-segment pattern (names only): nothing when
\* the path is not a directory
Glob(f, p, pattern) == { n \in IterDir(f, p) : FnMatch(n, pattern) }

\* a new entry, and its directory's modification time
AddEntry(f, loc, node, now) ==
    LET par == ParentLoc(loc)
        g   == [l \in DOMAIN f \cup {loc} |-> IF l = loc THEN node ELSE f[l]]
    IN  IF loc # <<>> /\ par \in DOMAIN f /\ f[par].kind = "dir"
        THEN [g EXCEPT ![par].mtime = now] ELSE g

\* an entry (with everything below it) removed
RemoveTree(f, loc) == [l \in { x \in DOMAIN f : ~IsUnder(x, loc) } |-> f[l]]

FsOk(f) == [fs |-> f, err |-> ""]
FsErr(f, e) == [fs |-> f, err |-> e]

RECURSIVE Mkdirs(_, _, _)
\* Path.mkdir(parents=True, exist_ok=True)
Mkdirs(f, p, now) ==
    LET r == LStat(f, p)
    IN  IF Found(f, r)
        THEN IF IsDir(f, p) THEN FsOk(f) ELSE FsErr(f, "FileExistsError")
        ELSE IF r.ok THEN FsOk(AddEntry(f, r.loc, [DirNode EXCEPT !.mtime = now], now))
        ELSE IF p.parts = <<>> THEN FsErr(f, "FileNotFoundError")
        ELSE LET up == Mkdirs(f, ParentOf(p), now)
                 r2 == LStat(up.fs, p)
             IN  IF up.err # "" THEN up
                 ELSE IF r2.ok /\ r2.loc \notin DOMAIN up.fs
                      THEN FsOk(AddEntry(up.fs, r2.loc, [DirNode EXCEPT !.mtime = now], now))
                 ELSE FsErr(up.fs, "NotADirectoryError")

\* shutil.copyfile(src, dst) on two resolved locations
CopyFile(f, src, dst, now) ==
    LET d == Stat(f, AbsPath(dst))
    IN  IF f[src].ro THEN FsErr(f, "PermissionError")
        ELSE IF Found(f, d) /\ d.loc = src THEN FsErr(f, "SameFileError")
        ELSE IF ~d.ok THEN FsErr(f, "FileNotFoundError")
        ELSE IF Found(f, d) /\ f[d.loc].kind = "dir" THEN FsErr(f, "IsADirectoryError")
        ELSE IF Found(f, d)
             THEN FsOk([f EXCEPT ![d.loc] = FileNode(now, f[src].data)])
        ELSE FsOk(AddEntry(f, d.loc, FileNode(now, f[src].data), now))

\* os.rename(src, dst): the entry moves with everything below it; an existing
\* file at the destination is replaced
Rename(f, p, q, now) ==
    LET s == LStat(f, p)
        d == LStat(f, q)
    IN  IF ~Found(f, s) \/ ~d.ok THEN FsErr(f, "FileNotFoundError")
        ELSE IF IsUnder(d.loc, s.loc) /\ d.loc # s.loc THEN FsErr(f, "OSError")
        ELSE IF d.loc = s.loc THEN FsOk(f)
        ELSE IF Found(f, d) /\ f[d.loc].kind = "dir" /\ f[s.loc].kind # "dir"
             THEN FsErr(f, "IsADirectoryError")
        ELSE IF Found(f, d) /\ f[d.loc].kind # "dir" /\ f[s.loc].kind = "dir"
             THEN FsErr(f, "NotADirectoryError")
        ELSE IF Found(f, d) /\ ChildNames(f, d.loc) # {} THEN FsErr(f, "OSError")
        ELSE LET moved == { x \in DOMAIN f : IsUnder(x, s.loc) }
                 kept  == { x \in DOMAIN f : ~IsUnder(x, s.loc) /\ ~IsUnder(x, d.loc) }
                 to(x) == d.loc \o SubSeq(x, Len(s.loc) + 1, Len(x))
                 g     == [l \in kept \cup { to(x) : x \in moved } |->
                             IF l \in kept THEN f[l]
                             ELSE f[s.loc \o SubSeq(l, Len(d.loc) + 1, Len(l))]]
                 touch(h, l) == IF l \in DOMAIN h /\ h[l].kind = "dir"
                                THEN [h EXCEPT ![l].mtime = now] ELSE h
             IN  FsOk(touch(touch(g, ParentLoc(s.loc)), ParentLoc(d.loc)))

\* Path.unlink()
Unlink(f, p, now) ==
    LET r == LStat(f, p)
    IN  IF ~Found(f, r) THEN FsErr(f, "FileNotFoundError")
        ELSE IF f[r.loc].kind = "dir" THEN FsErr(f, "IsADirectoryError")
        ELSE FsOk(RemoveTree(f, r.loc))

\* Path.symlink_to(target)
SymlinkTo(f, p, target, now) ==
    LET r == LStat(f, p)
    IN  IF ~r.ok THEN FsErr(f, "FileNotFoundError")
        ELSE IF Found(f, r) THEN FsErr(f, "FileExistsError")
        ELSE FsOk(AddEntry(f, r.loc, LinkNode(target), now))

(***************************************************************************)
(* The run's mutable state as the nested functions see it:                 *)
(*   fs      the filesystem                                                *)
(*   news    NEWS_LIST                                                     *)
(*   exc     the exception in flight ("" when none)                        *)
(*   head    the tree of the last git commit; gitlog the git commands run  *)
(*   calls   every ingest_path invocation, events what each one did to the *)
(*           filesystem (both are history: the program does not read them) *)
(* cx holds what stays fixed during one top-level call: the clock (now),   *)
(* the run number, the flags, the ignored paths, the iteration order of    *)
(* sets (rev) and the variable the driver substituted (var).               *)
(***************************************************************************)
NoBase == [set |-> FALSE, path |-> NoTarget]
BaseOf(p) == [set |-> TRUE, path |-> p]
NoLoc == << <<"?">> >>

News(kind, app, rule, path) == [kind |-> kind, app |-> app, rule |-> rule, path |-> path]

\* warning_news
WarningNews(m, item) == [m EXCEPT !.news = Append(@, item)]

Event(ev, src, dst, cid, cx, srcm, dstm) ==
    [ev |-> ev, src |-> src, dst |-> dst, call |-> cid, run |-> cx.run,
     srcm |-> srcm, dstm |-> dstm]

Emit(m, e) == [m EXCEPT !.events = Append(@, e)]

Raise(m, e) == [m EXCEPT !.exc = e]

RECURSIVE SeqOfSet(_)
SeqOfSet(S) == IF S = {} THEN <<>>
               ELSE LET x == CHOOSE y \in S : TRUE IN <<x>> \o SeqOfSet(S \ {x})

RECURSIVE Reverse(_)
Reverse(q) == IF q = <<>> THEN <<>> ELSE Append(Reverse(Tail(q)), Head(q))

\* the order in which a set is iterated: one enumeration or its reverse
OrderOf(S, rev) == IF rev THEN Reverse(SeqOfSet(S)) ELSE SeqOfSet(S)

\* the files and symlinks below the output directory, as git sees them
\* (no modification times, no empty directories)
GitTree(f) ==
    LET tracked == { l \in DOMAIN f : IsUnder(l, OutLoc) /\ f[l].kind # "dir" }
    IN  [l \in tracked |-> [kind |-> f[l].kind, data |-> f[l].data, target |-> f[l].target]]

\* git_is_repo_dirty
GitIsRepoDirty(m) == GitTree(m.fs) # m.head

\* git(*params): a no-op without a git binary
Git(m, cx, params) == IF cx.git THEN [m EXCEPT !.gitlog = Append(@, params)] ELSE m

\* git add -A; git commit -m message
GitCommit(m, cx, message) ==
    IF cx.git
    THEN [Git(Git(m, cx, <<"add">>), cx, <<"commit", message>>) EXCEPT !.head = GitTree(m.fs)]
    ELSE m

\* is_path_ignored(path, ignored_paths), on the string of the path
IsPathIgnored(pathstr, ignored) == \E ig \in ignored : StartsWith(pathstr, Str(ig))

RECURSIVE CopyItem(_, _, _, _, _)
RECURSIVE CopyChildren(_, _, _, _, _, _)

\* the loop detection as a test for the output directory itself
OriginIsOutput(input_item) == Str(input_item) = Str(AbsPath(OutLoc))

\* copy_item's loop detection: the source, resolved, is inside the output
OriginInsideOutput(input_item) == StartsWith(Str(input_item), Str(AbsPath(OutLoc)))

\* copy_item's incremental test: the destination is newer than the source
DidntChange(srcm, dstm) == srcm < dstm

\* the modification time of what is at loc, -1 when nothing is there
MtimeAt(f, loc) == IF Exists(f, AbsPath(loc)) THEN f[Stat(f, AbsPath(loc)).loc].mtime ELSE -1

\* copy_item, file branch, after shutil.copyfile (cp is its result)
CopyFileDone(m, cx, cid, src, dst, dm, cp) ==
    IF cp.err = "SameFileError" THEN m
    ELSE IF cp.err # "" THEN Raise(m, cp.err)
    ELSE Emit([m EXCEPT !.fs = cp.fs], Event("copy", src, dst, cid, cx, m.fs[src].mtime, dm))

\* copy_item, file branch, after destination.parent.mkdir; dm is the
\* destination's modification time
CopyFileTest(m, cx, cid, src, dst, dm) ==
    IF dm # -1 /\ DidntChange(m.fs[src].mtime, dm)
    THEN Emit(m, Event("skip_mtime", src, dst, cid, cx, m.fs[src].mtime, dm))
    ELSE CopyFileDone(m, cx, cid, src, dst, dm, CopyFile(m.fs, src, dst, cx.now))

\* copy_item, file branch (mk is the result of destination.parent.mkdir)
CopyFileBranch(m, cx, cid, src, dst, mk) ==
    IF mk.err # "" THEN Raise([m EXCEPT !.fs = mk.fs], mk.err)
    ELSE CopyFileTest([m EXCEPT !.fs = mk.fs], cx, cid, src, dst, MtimeAt(mk.fs, dst))

\* copy_item, directory branch (mk is the result of destination.mkdir)
CopyDirBranch(m, cx, cid, src, dst, mk) ==
    IF mk.err # ""
    THEN Raise([m EXCEPT !.fs = mk.fs], mk.err)
    ELSE IF m.fs[src].ro
    THEN Raise(IF mk.fs # m.fs
               THEN Emit([m EXCEPT !.fs = mk.fs], Event("mkdir", src, dst, cid, cx, 0, 0))
               ELSE m, "PermissionError")
    ELSE CopyChildren(IF mk.fs # m.fs
                      THEN Emit([m EXCEPT !.fs = mk.fs], Event("mkdir", src, dst, cid, cx, 0, 0))
                      ELSE m,
                      cx, cid, OrderOf(IterDir(mk.fs, AbsPath(src)), cx.rev),
                      AbsPath(src), AbsPath(dst))

\* copy_item once both paths are resolved (to src and dst)
CopyResolved(m, cx, cid, original_input_item, src, dst) ==
    IF ~Exists(m.fs, AbsPath(src)) THEN m
    ELSE IF OriginInsideOutput(AbsPath(src))
    THEN Emit(m, Event("skip_inside_output", src, dst, cid, cx, 0, 0))
    ELSE IF IsSymlink(m.fs, original_input_item)
    THEN Emit(m, Event("skip_symlink", src, dst, cid, cx, 0, 0))
    ELSE IF IsFile(m.fs, AbsPath(src))
    THEN CopyFileBranch(m, cx, cid, src, dst,
                        Mkdirs(m.fs, ParentOf(AbsPath(dst)), cx.now))
    ELSE IF IsDir(m.fs, AbsPath(src))
    THEN CopyDirBranch(m, cx, cid, src, dst, Mkdirs(m.fs, AbsPath(dst), cx.now))
    ELSE m

\* copy_item(input_item, destination, output_dir, verbose)
CopyItem(m, cx, cid, original_input_item, destination) ==
    IF m.exc # "" THEN m
    ELSE CopyResolved(m, cx, cid, original_input_item,
                      Resolve(m.fs, original_input_item), Resolve(m.fs, destination))

\* the loop of copy_item over input_item.iterdir()
CopyChildren(m, cx, cid, names, input_item, destination) ==
    IF names = <<>> \/ m.exc # "" THEN m
    ELSE CopyChildren(CopyItem(m, cx, cid, Child(input_item, Head(names)),
                               Child(destination, Head(names))),
                      cx, cid, Tail(names), input_item, destination)

(***************************************************************************)
(* backup_item and ingest_path.                                            *)
(***************************************************************************)
Digit(n) == <<"0", "1", "2", "3", "4", "5", "6", "7", "8", "9">>[n + 1]

RECURSIVE DecStr(_)
\* str(int): the decimal digits
DecStr(n) == IF n < 10 THEN <<Digit(n)>> ELSE Append(DecStr(n \div 10), Digit(n % 10))

\* the quarantine target without the timestamp suffix
BackupTargetNoSuffix(item, now) == Child(Child(AbsPath(OutLoc), BACKUP_DIR), NameOf(item))

\* backup_item's target: backup_dir / f"{item.name}.{int(time())}"
BackupTarget(item, now) ==
    Child(Child(AbsPath(OutLoc), BACKUP_DIR), NameOf(item) \o <<".">> \o DecStr(now))

\* backup_item after item.rename (mv is its result; from and to are the
\* locations of the item and of the target)
BackupRenamed(m, cx, cid, item, from, to, mv) ==
    IF mv.err # "" THEN Raise(m, mv.err)
    ELSE WarningNews(Emit([m EXCEPT !.fs = mv.fs], Event("quarantine", from, to, cid, cx, 0, 0)),
                     News("quarantine", <<>>, <<>>, Str(item)))

\* backup_item after backup_dir.mkdir (mk is its result)
BackupInto(m, cx, cid, item, mk) ==
    IF mk.err # "" THEN Raise([m EXCEPT !.fs = mk.fs], mk.err)
    ELSE BackupRenamed([m EXCEPT !.fs = mk.fs], cx, cid, item,
                       LStat(mk.fs, item).loc, LStat(mk.fs, BackupTarget(item, cx.now)).loc,
                       Rename(mk.fs, item, BackupTarget(item, cx.now), cx.now))

\* backup_item(item, output_dir)
BackupItem(m, cx, cid, item) ==
    BackupInto(m, cx, cid, item, Mkdirs(m.fs, Child(AbsPath(OutLoc), BACKUP_DIR), cx.now))

\* the security test of ingest_path: the resolved path begins with the
\* resolved base, as strings
StartsWithBase(resolved_path, base_resolved) ==
    StartsWith(Str(resolved_path), Str(base_resolved))

\* the untrusted-path test with the wildcard condition inverted
UntrustedAbsoluteOnGlob(path) == HasStar(path) /\ PathOf(path).abs

\* the test for an untrusted absolute path
UntrustedAbsolute(path) == ~HasStar(path) /\ PathOf(path).abs

\* the glob branch without its assertion
GlobInParentUnchecked(parent) == FALSE

\* the glob branch refuses a wildcard before the last segment
GlobInParent(parent) == HasStar(Str(parent))

\* the backlink branch: path.unlink() of an existing symlink (un is its result)
BacklinkUnlinked(m, cx, cid, ppath, un) ==
    IF un.err # "" THEN Raise(m, un.err)
    ELSE Emit([m EXCEPT !.fs = un.fs],
              Event("unlink", LStat(m.fs, ppath).loc, NoLoc, cid, cx, 0, 0))

\* the backlink branch: what is at the original location makes way
BacklinkDisplace(m, cx, cid, ppath) ==
    IF IsSymlink(m.fs, ppath) THEN BacklinkUnlinked(m, cx, cid, ppath, Unlink(m.fs, ppath, cx.now))
    ELSE IF Exists(m.fs, ppath) THEN BackupItem(m, cx, cid, ppath)
    ELSE m

\* the backlink branch: after path.symlink_to(output_dir) (ln is its result)
BacklinkLinked(m, cx, cid, ppath, output_dir, ln) ==
    IF ln.err # "" THEN Raise(m, ln.err)
    ELSE Emit([m EXCEPT !.fs = ln.fs],
              Event("symlink", LStat(m.fs, ppath).loc, Resolve(ln.fs, output_dir), cid, cx, 0, 0))

\* the backlink branch: path.symlink_to(output_dir)
BacklinkLink(m, cx, cid, ppath, output_dir) ==
    IF m.exc # "" THEN m
    ELSE BacklinkLinked(m, cx, cid, ppath, output_dir,
                        SymlinkTo(m.fs, ppath, output_dir, cx.now))

\* the backlink branch after path.parent.mkdir (mk is its result)
BacklinkInto(m, cx, cid, ppath, output_dir, mk) ==
    IF mk.err # "" THEN Raise([m EXCEPT !.fs = mk.fs], mk.err)
    ELSE BacklinkLink(BacklinkDisplace([m EXCEPT !.fs = mk.fs], cx, cid, ppath),
                      cx, cid, ppath, output_dir)

\* the backlink branch of ingest_path
Backlink(m, cx, cid, ppath, output_dir) ==
    BacklinkInto(m, cx, cid, ppath, output_dir, Mkdirs(m.fs, ParentOf(ppath), cx.now))

\* the dangling-symlink audit that ends ingest_path
DanglingAudit(m, ppath) ==
    IF m.exc = "" /\ IsSymlink(m.fs, ppath) /\ ~Exists(m.fs, ppath)
    THEN WarningNews(m, News("dangling", <<>>, <<>>, Str(ppath)))
    ELSE m

SetOutcome(m, cid, o) == [m EXCEPT !.calls[cid].outcome = o]

RECURSIVE IngestPath(_, _, _, _, _, _, _, _)
RECURSIVE IngestNames(_, _, _, _, _, _, _, _)

\* output_dir = Path(args.output) / app / rule_name
OutputDir(app, rule_name) == Join(Join(AbsPath(OutLoc), PathOf(app)), PathOf(rule_name))

\* the commit that follows copy_item in the direct branch
CommitCopied(m, cx, app, rule_name, path) ==
    IF m.exc = "" /\ cx.git /\ GitIsRepoDirty(m)
    THEN GitCommit(m, cx, <<app, rule_name, path>>)
    ELSE m

\* the glob branch with the names of the source directory only
GlobBranchSourceOnly(m, cx, cid, app, rule_name, ppath, base_path) ==
    IF GlobInParent(ParentOf(ppath)) THEN Raise(m, "AssertionError")
    ELSE IngestNames(SetOutcome(m, cid, "glob"), cx, cid, app, rule_name,
                     OrderOf(Glob(m.fs, ParentOf(ppath), NameOf(ppath)), cx.rev),
                     ParentOf(ppath),
                     IF base_path.set THEN base_path ELSE BaseOf(ParentOf(ppath)))

\* the glob branch of ingest_path
GlobBranch(m, cx, cid, app, rule_name, ppath, base_path) ==
    IF GlobInParent(ParentOf(ppath)) THEN Raise(m, "AssertionError")
    ELSE IngestNames(SetOutcome(m, cid, "glob"), cx, cid, app, rule_name,
                     OrderOf(Glob(m.fs, ParentOf(ppath), NameOf(ppath))
                                 \cup Glob(m.fs, OutputDir(app, rule_name), NameOf(ppath)),
                             cx.rev),
                     ParentOf(ppath),
                     IF base_path.set THEN base_path ELSE BaseOf(ParentOf(ppath)))

\* the direct branch of ingest_path
DirectBranch(m, cx, cid, app, rule_name, path) ==
    IF Exists(m.fs, PathOf(path))
    THEN CommitCopied(CopyItem(SetOutcome(m, cid, "direct"), cx, cid, PathOf(path),
                               OutputDir(app, rule_name)),
                      cx, app, rule_name, path)
    ELSE SetOutcome(m, cid, "missing")

\* the backlink branch is taken for a top-level, wildcard-free call
BacklinkIf(m, cx, cid, path, top_level, output_dir) ==
    IF m.exc = "" /\ cx.backlink /\ top_level /\ ~HasStar(path)
    THEN Backlink(m, cx, cid, PathOf(path), output_dir)
    ELSE m

\* the body of ingest_path's try block; cid is this invocation's index in calls
IngestBody(m, cx, cid, app, rule_name, path, top_level, base_path) ==
    IF base_path.set
       /\ ~StartsWithBase(AbsPath(Resolve(m.fs, PathOf(path))),
                          AbsPath(Resolve(m.fs, base_path.path)))
    THEN SetOutcome(WarningNews(m, News("security_base", app, <<>>, path)),
                    cid, "rejected_base")
    ELSE IF ~base_path.set /\ UntrustedAbsolute(path)
    THEN SetOutcome(WarningNews(m, News("security_absolute", app, <<>>, path)),
                    cid, "rejected_absolute")
    ELSE IF IsPathIgnored(path, cx.ignored) THEN SetOutcome(m, cid, "ignored")
    ELSE DanglingAudit(
             BacklinkIf(IF HasStar(path)
                        THEN GlobBranch(m, cx, cid, app, rule_name, PathOf(path), base_path)
                        ELSE DirectBranch(m, cx, cid, app, rule_name, path),
                        cx, cid, path, top_level, OutputDir(app, rule_name)),
             PathOf(path))

\* the record of one invocation of ingest_path
CallOf(m, cx, caller, app, rule_name, path, top_level, base_path) ==
    [app |-> app, rule |-> rule_name, path |-> path, base |-> base_path,
     top |-> top_level, caller |-> caller, run |-> cx.run, var |-> cx.var,
     resolved |-> Resolve(m.fs, PathOf(path)),
     baseres |-> IF base_path.set THEN Resolve(m.fs, base_path.path) ELSE NoLoc,
     outcome |-> "entered", raised |-> FALSE]

\* the except clause without the diagnostic
CaughtSilently(m, cid, app, rule_name, path) ==
    IF m.exc # "" THEN [m EXCEPT !.exc = "", !.calls[cid].raised = TRUE] ELSE m

\* ingest_path's except clause: the exception becomes a diagnostic
Caught(m, cid, app, rule_name, path) ==
    IF m.exc # ""
    THEN [WarningNews(m, News("error", app, rule_name, path))
            EXCEPT !.exc = "", !.calls[cid].raised = TRUE]
    ELSE m

\* ingest_path(app, rule_name, path, top_level, base_path)
IngestPath(m, cx, caller, app, rule_name, path, top_level, base_path) ==
    Caught(IngestBody([m EXCEPT !.calls = Append(@, CallOf(m, cx, caller, app, rule_name,
                                                            path, top_level, base_path))],
                      cx, Len(m.calls) + 1, app, rule_name, path, top_level, base_path),
           Len(m.calls) + 1, app, rule_name, path)

\* the loop of the glob branch with the rule name extended for directories only
IngestNamesDirsExtended(m, cx, caller, app, rule_name, names, parent, base_path) ==
    IF names = <<>> THEN m
    ELSE IngestNames(IngestPath(m, cx, caller, app,
                                IF IsDir(m.fs, Child(parent, Head(names)))
                                THEN Str(Join(PathOf(rule_name), PathOf(Head(names))))
                                ELSE rule_name,
                                Str(Child(parent, Head(names))), TRUE, base_path),
                     cx, caller, app, rule_name, Tail(names), parent, base_path)

\* the loop of the glob branch over the matched names
IngestNames(m, cx, caller, app, rule_name, names, parent, base_path) ==
    IF names = <<>> THEN m
    ELSE IngestNames(IngestPath(m, cx, caller, app,
                                Str(Join(PathOf(rule_name), PathOf(Head(names)))),
                                Str(Child(parent, Head(names))), TRUE, base_path),
                     cx, caller, app, rule_name, Tail(names), parent, base_path)

(***************************************************************************)
(* Rule files and the rule index.                                          *)
(***************************************************************************)
IsSpace(c) == c = " " \/ c = "\t"

RECURSIVE LStrip(_)
LStrip(s) == IF s # <<>> /\ IsSpace(Head(s)) THEN LStrip(Tail(s)) ELSE s

\* str.strip()
Strip(s) == Reverse(LStrip(Reverse(LStrip(s))))

RECURSIVE FindChar(_, _, _)
\* the index of the first c in s at or after i, 0 when there is none
FindChar(s, c, i) == IF i > Len(s) THEN 0 ELSE IF s[i] = c THEN i ELSE FindChar(s, c, i + 1)

\* a configuration in which no rule is ever switched off
RuleIgnoredNever(cfg, app, rule_name) == FALSE

\* get_bool(config, app, "ignore_" + rule_name)
RuleIgnored(cfg, app, rule_name) == <<app, rule_name>> \in cfg.ignore_rules

RECURSIVE ParseLines(_, _, _)
\* parse_rules(app), over the lines of the app's rule file
ParseLines(cfg, app, lines) ==
    IF lines = <<>> THEN <<>>
    ELSE LET rule == Strip(Head(lines))
             sp   == FindChar(rule, " ", 1)
             rule_name == SubSeq(rule, 1, sp - 1)
             rule_path == SubSeq(rule, sp + 1, Len(rule))
             rest == ParseLines(cfg, app, Tail(lines))
         IN  IF rule # <<>> /\ sp # 0 /\ ~RuleIgnored(cfg, app, rule_name)
             THEN << <<Strip(rule_name), Strip(rule_path)>> >> \o rest
             ELSE rest

IsLower(c) == c \in {"a", "b", "c", "d", "e", "f", "g", "h", "i", "j", "k", "l", "m",
                     "n", "o", "p", "q", "r", "s", "t", "u", "v", "w", "x", "y", "z"}

RECURSIVE LowerRun(_)
\* the longest run of lowercase letters that starts s
LowerRun(s) == IF s # <<>> /\ IsLower(Head(s)) THEN <<Head(s)>> \o LowerRun(Tail(s)) ELSE <<>>

\* the variable pattern capturing everything after the "$"
RuleVariablesToEnd(rule_path) ==
    LET i == FindChar(rule_path, "$", 1)
    IN  IF i = 0 THEN <<>> ELSE << SubSeq(rule_path, i + 1, Len(rule_path)) >>

\* re.search(r"\$([a-z]*)", rule_path): the groups of the first match, as a
\* list (empty when the template holds no "$")
RuleVariables(rule_path) ==
    LET i == FindChar(rule_path, "$", 1)
    IN  IF i = 0 THEN <<>> ELSE << LowerRun(SubSeq(rule_path, i + 1, Len(rule_path))) >>

(***************************************************************************)
(* The machines the model runs on.  A world fixes the command line, the    *)
(* configuration, the rule files and the filesystem before the first run;  *)
(* it differs from BaseWorld in at most MaxDeviations of its dimensions.   *)
(* w.rev is the order in which the machine iterates sets and directories:  *)
(* one enumeration or its reverse.                                         *)
(*                                                                         *)
(*   /h/u             a home: .config, AppData/s, s (of kind w.sKind,      *)
(*                    unreadable when w.ro),                               *)
(*                    g/a.v, g/b.v, g/c.w, Documents/s                     *)
(*   /h/u2/s          a sibling of the home whose name begins with "u"     *)
(*   /e/p             a file outside every root                            *)
(*   /i/d/a.v, b.v,   an install directory                                 *)
(*        c.w                                                              *)
(*   /w/Common Files  a Program Files directory (when w.pf)                *)
(*   /n/d/a.v         an install directory below a directory the user may  *)
(*                    not enter (rule set 8)                               *)
(*   /o               the output: absent, a directory holding the home     *)
(*                    /o/k with /o/k/s, or a file                          *)
(***************************************************************************)
MaxDeviations == 1
\* --max-depth, the depth search_for_homes descends to
MaxDepth == 3

nH == <<"h">>
nU == <<"u">>
nU2 == <<"u", "2">>
nS == <<"s">>
nG == <<"g">>
nE == <<"e">>
nP == <<"p">>
nI == <<"i">>
nD == <<"d">>
nK == <<"k">>
nW == <<"w">>
nW2 == <<"w", "2">>
nN == <<"n">>
nQ == <<"q">>
nL == <<"l">>
nF == <<"f">>
nJ == <<"j">>
nZV == <<"z", ".", "v">>
nAV == <<"a", ".", "v">>
nBV == <<"b", ".", "v">>
nCW == <<"c", ".", "w">>
nCONFIG == <<".", "c", "o", "n", "f", "i", "g">>
nDOCUMENTS == <<"D", "o", "c", "u", "m", "e", "n", "t", "s">>
nDOCUMENTOS == <<"D", "o", "c", "u", "m", "e", "n", "t", "o", "s">>
nCOMMON == <<"C", "o", "m", "m", "o", "n", " ", "F", "i", "l", "e", "s">>
appA == <<"A">>
appB == <<"B">>
appC == <<"C">>

HomeLoc == <<nH, nU>>
InnerHomeLoc == OutLoc \o <<nK>>
\* a home two levels below a directory that can be entered but not listed
GuardedHomeLoc == <<nN, nD, nU>>

\* the rule files of each world, per application: name, space, template
RuleSets == <<
    \* 1: A reads $home only, B reads $appdata only, C reads below the Program
    \* Files directory and below a Ubisoft user directory
    [a |-> << <<"s", " ", "$", "h", "o", "m", "e", "/", "s">>, <<"g", " ", "$", "h", "o", "m", "e", "/", "g", "/", "*", ".", "v">> >>, b |-> << <<"s", " ", "$", "a", "p", "p", "d", "a", "t", "a", "/", "s">> >> , c |-> << <<"p", " ", "$", "p", "r", "o", "g", "r", "a", "m", "_", "f", "i", "l", "e", "s", "/", "f">>, <<"u", " ", "$", "u", "b", "i", "s", "o", "f", "t", "/", "s">> >>],
    \* 2: a glob below the install directory
    [a |-> << <<"s", " ", "$", "h", "o", "m", "e", "/", "s">> >>, b |-> <<>>, c |-> << <<"d", " ", "$", "i", "n", "s", "t", "a", "l", "l", "d", "i", "r", "/", "d", "/", "*", ".", "v">> >>],
    \* 3: an absolute path without a variable
    [a |-> << <<"x", " ", "/", "e", "/", "p">>, <<"s", " ", "$", "h", "o", "m", "e", "/", "s">> >>, b |-> << <<"s", " ", "$", "a", "p", "p", "d", "a", "t", "a", "/", "s">> >>, c |-> <<>>],
    \* 4: a wildcard before the last segment
    [a |-> << <<"x", " ", "$", "h", "o", "m", "e", "/", "*", "/", "s">>, <<"s", " ", "$", "h", "o", "m", "e", "/", "s">> >>, b |-> << <<"s", " ", "$", "a", "p", "p", "d", "a", "t", "a", "/", "s">> >>, c |-> <<>>],
    \* 5: the variable followed by more of a name, and ".." after the variable
    [a |-> << <<"x", " ", "$", "h", "o", "m", "e", "2", "/", "s">>, <<"y", " ", "$", "h", "o", "m", "e", "/", ".", ".", "/", ".", ".", "/", "e", "/", "p">>, <<"z", " ", "$", "h", "o", "m", "e", "/", ".", ".", "/", "u", "2", "/", "s">> >>, b |-> <<>>, c |-> <<>>],
    \* 6: an absolute glob without a variable, a relative path and a relative glob
    [a |-> << <<"x", " ", "/", "e", "/", "*">>, <<"r", " ", "A", "/", "s">>, <<"q", " ", ".", ".", "/", "e", "/", "*">>, <<"s", " ", "$", "h", "o", "m", "e", "/", "s">>, <<"g", " ", "$", "h", "o", "m", "e", "/", "g", "/", "*", ".", "v">> >>, b |-> <<>>, c |-> <<>>],
    \* 7: both applications read both variables
    [a |-> << <<"s", " ", "$", "h", "o", "m", "e", "/", "s">>, <<"t", " ", "$", "a", "p", "p", "d", "a", "t", "a", "/", "s">> >>, b |-> << <<"s", " ", "$", "a", "p", "p", "d", "a", "t", "a", "/", "s">>, <<"d", " ", "$", "d", "o", "c", "u", "m", "e", "n", "t", "s", "/", "s">> >>, c |-> <<>>],
    \* 8: a glob in an install directory that lies below the unreadable /n
    [a |-> << <<"s", " ", "$", "h", "o", "m", "e", "/", "s">> >>, b |-> <<>>, c |-> << <<"d", " ", "$", "i", "n", "s", "t", "a", "l", "l", "d", "i", "r", "/", "*", ".", "v">> >>],
    \* 9: rule names with ".." segments and with a leading slash
    [a |-> << <<".", ".", "/", ".", ".", "/", "e", "/", "y", " ", "$", "h", "o", "m", "e", "/", "s">>, <<"/", "e", "/", "z", " ", "$", "h", "o", "m", "e", "/", "s">>, <<"s", " ", "$", "h", "o", "m", "e", "/", "s">> >>, b |-> <<>>, c |-> <<>>]
  >>

UBISOFT_DIR == <<"u", "b", "i", "s", "o", "f", "t">>
USERS_FILE == <<"u", "s", "e", "r", "s", ".", "t", "x", "t">>
UBISOFT_SAVEGAMES == << <<"U", "b", "i", "s", "o", "f", "t">>, <<"U", "b", "i", "s", "o", "f", "t", " ", "G", "a", "m", "e", " ", "L", "a", "u", "n", "c", "h", "e", "r">>, <<"s", "a", "v", "e", "g", "a", "m", "e", "s">> >>

Apps == {appA, appB, appC}
RuleLines(w, app) == IF app = appA THEN RuleSets[w.rules].a
                     ELSE IF app = appB THEN RuleSets[w.rules].b
                     ELSE RuleSets[w.rules].c

BaseWorld == [rules |-> 1, sKind |-> "file_old", backlink |-> FALSE, gitmode |-> "off",
              config_is_file |-> TRUE, outKind |-> "absent", homes |-> "extra",
              ignored |-> "none", ro |-> FALSE, pf |-> FALSE, rev |-> FALSE]

Worlds == [rules : 1..Len(RuleSets),
           sKind : {"file_old", "file_new", "dir", "link_out", "link_dangling", "absent"},
           backlink : BOOLEAN, gitmode : {"off", "on", "missing"},
           config_is_file : BOOLEAN, outKind : {"absent", "dir", "file"},
           homes : {"extra", "search", "inner", "guarded"}, ignored : {"none", "g"},
           ro : BOOLEAN, pf : BOOLEAN, rev : BOOLEAN]

Dims == DOMAIN BaseWorld
Deviations(w) == Cardinality({ d \in Dims : w[d] # BaseWorld[d] })

Entry(loc, node) == [loc |-> loc, node |-> node]
FsOf(entries) == [l \in { e.loc : e \in entries } |-> (CHOOSE e \in entries : e.loc = l).node]

\* the filesystem of world w before the first run
WorldFs(w) ==
    LET fixed == {
            Entry(<<>>, DirNode), Entry(<<nH>>, DirNode), Entry(HomeLoc, DirNode),
            Entry(HomeLoc \o <<nCONFIG>>, DirNode),
            Entry(HomeLoc \o <<APPDATA>>, DirNode),
            Entry(HomeLoc \o <<APPDATA, nS>>, FileNode(0, << <<"appdata_s">> >>)),
            Entry(HomeLoc \o <<nG>>, DirNode),
            Entry(HomeLoc \o <<nG, nAV>>, FileNode(0, << <<"g_a">> >>)),
            Entry(HomeLoc \o <<nG, nBV>>, FileNode(0, << <<"g_b">> >>)),
            Entry(HomeLoc \o <<nG, nCW>>, FileNode(0, << <<"g_c">> >>)),
            Entry(HomeLoc \o <<nDOCUMENTS>>, DirNode),
            Entry(HomeLoc \o <<nDOCUMENTS, nS>>, FileNode(0, << <<"doc_s">> >>)),
            Entry(<<nH, nU2>>, DirNode), Entry(<<nH, nU2, nS>>, FileNode(0, << <<"u2_s">> >>)),
            Entry(<<nE>>, DirNode), Entry(<<nE, nP>>, FileNode(0, << <<"e_p">> >>)),
            Entry(<<nI>>, DirNode), Entry(<<nI, nD>>, DirNode),
            Entry(<<nI, nD, nAV>>, FileNode(0, << <<"i_a">> >>)),
            Entry(<<nI, nD, nBV>>, FileNode(0, << <<"i_b">> >>)),
            Entry(<<nI, nD, nCW>>, FileNode(0, << <<"i_c">> >>)) }
        save == CASE w.sKind = "file_old" -> { Entry(HomeLoc \o <<nS>>, [FileNode(0, << <<"u_s">> >>) EXCEPT !.ro = w.ro]) }
                  [] w.sKind = "file_new" -> { Entry(HomeLoc \o <<nS>>, [FileNode(1, << <<"u_s">> >>) EXCEPT !.ro = w.ro]) }
                  [] w.sKind = "dir" -> { Entry(HomeLoc \o <<nS>>, [DirNode EXCEPT !.ro = w.ro]),
                                          Entry(HomeLoc \o <<nS, nQ>>, FileNode(0, << <<"u_s_q">> >>)),
                                          Entry(HomeLoc \o <<nS, nL>>, LinkNode(AbsPath(<<nE>>))) }
                  [] w.sKind = "link_dangling" ->
                        { Entry(HomeLoc \o <<nS>>, LinkNode(AbsPath(<<nE, nQ>>))) }
                  [] w.sKind = "link_out" ->
                        { Entry(HomeLoc \o <<nS>>, LinkNode(AbsPath(<<nE, nP>>))) }
                  [] OTHER -> {}
        out  == CASE w.outKind = "dir" -> { Entry(OutLoc, DirNode), Entry(InnerHomeLoc, DirNode),
                                            Entry(InnerHomeLoc \o <<nS>>, FileNode(0, << <<"k_s">> >>)),
                                            Entry(OutLoc \o <<appA>>, DirNode),
                                            Entry(OutLoc \o <<appA, nG>>, DirNode),
                                            Entry(OutLoc \o <<appA, nG, nZV>>, FileNode(0, << <<"o_z">> >>)) }
                  [] w.outKind = "file" -> { Entry(OutLoc, FileNode(0, << <<"out">> >>)) }
                  [] OTHER -> {}
        pf   == IF w.pf
                THEN { Entry(<<nW>>, DirNode), Entry(<<nW, nCOMMON>>, DirNode),
                       Entry(<<nW, nF>>, FileNode(0, << <<"w_f">> >>)),
                       Entry(<<nW, UBISOFT_SAVEGAMES[1]>>, DirNode),
                       Entry(<<nW>> \o SubSeq(UBISOFT_SAVEGAMES, 1, 2), DirNode),
                       Entry(<<nW>> \o UBISOFT_SAVEGAMES, DirNode),
                       Entry(<<nW>> \o UBISOFT_SAVEGAMES \o <<nJ>>, DirNode),
                       Entry(<<nW>> \o UBISOFT_SAVEGAMES \o <<nJ, nS>>, FileNode(0, << <<"j_s">> >>)),
                       Entry(<<nW>> \o UBISOFT_SAVEGAMES \o <<nF>>, FileNode(0, << <<"not_a_user">> >>)),
                       Entry(<<nW2>>, DirNode), Entry(<<nW2, nCOMMON>>, DirNode),
                       Entry(<<nW2, UBISOFT_SAVEGAMES[1]>>, DirNode),
                       Entry(<<nW2>> \o SubSeq(UBISOFT_SAVEGAMES, 1, 2), DirNode),
                       Entry(<<nW2>> \o UBISOFT_SAVEGAMES, DirNode),
                       Entry(<<nW2>> \o UBISOFT_SAVEGAMES \o <<nK>>, DirNode) }
                ELSE {}
        deny == IF w.rules = 8
                THEN { Entry(<<nN>>, [DirNode EXCEPT !.ro = TRUE]), Entry(<<nN, nD>>, DirNode),
                       Entry(<<nN, nD, nAV>>, FileNode(0, << <<"n_a">> >>)) }
                ELSE {}
        guarded == IF w.homes = "guarded"
                   THEN { Entry(<<nN>>, [DirNode EXCEPT !.ro = TRUE]), Entry(<<nN, nD>>, DirNode),
                          Entry(GuardedHomeLoc, DirNode),
                          Entry(GuardedHomeLoc \o <<nS>>, FileNode(0, << <<"n_u_s">> >>)) }
                   ELSE {}
    IN  FsOf(fixed \cup save \cup out \cup pf \cup deny \cup guarded)

\* the configuration file of world w, as the typed accessors return it
WorldConfig(w) ==
    [ignored      |-> IF w.ignored = "g" THEN { AbsPath(HomeLoc \o <<nG>>) } ELSE {},
     extra_homes  |-> CASE w.homes = "extra" -> { AbsPath(HomeLoc) }
                        [] w.homes = "inner" -> { AbsPath(HomeLoc), AbsPath(InnerHomeLoc) }
                        [] w.homes = "guarded" -> { AbsPath(HomeLoc), AbsPath(GuardedHomeLoc) }
                        [] OTHER -> {},
     search_paths |-> IF w.homes = "search" THEN { AbsPath(<<nH>>) } ELSE {},
     installdir   |-> [app \in Apps |-> IF app # appC THEN {}
                                         ELSE IF w.rules = 8 THEN { AbsPath(<<nN, nD>>) }
                                         ELSE { AbsPath(<<nI>>) }],
     not_installed |-> {},
     ignore_rules |-> {}]

(***************************************************************************)
(* main(): the state of one run and its steps.                             *)
(*   w         the world (command line, configuration, rule files)         *)
(*   m         filesystem, NEWS_LIST, git state, history                   *)
(*   now       the clock; run the number of the current run                *)
(*   pc        "setup", "running", "done", "aborted" or "crashed"          *)
(*   var_users the reverse index, as (variable, application) pairs         *)
(*   plan      the steps of main() still to come, in order                 *)
(*   todo      the ingest_path calls the current step has issued           *)
(*   homes     ALL_HOMES; gen the frames of the get_homes() generator      *)
(*   has_program_files  the flag of the Program Files search               *)
(*   start_time         the clock when the run began                       *)
(*   unit      one call of a helper function on its own: its name, its      *)
(*             arguments and, once it has returned, its result              *)
(***************************************************************************)
VARIABLES w, m, now, run, pc, var_users, plan, todo, homes, gen, has_program_files,
          start_time, unit

vars == <<w, m, now, run, pc, var_users, plan, todo, homes, gen, has_program_files,
          start_time, unit>>

\* no helper is being called on its own
NoUnit == [fn |-> "none"]

HOSTNAME == <<"h", "o", "s", "t">>
META_DIR == <<"_", "_", "m", "e", "t", "a", "_", "_">>
RULES_SUBDIR == <<"_", "_", "r", "u", "l", "e", "s", "_", "_">>
GIT_DIR == <<".", "g", "i", "t">>
HOMEFINDER_FIND_FOLDERS == << nCONFIG, APPDATA >>
HOMEFINDER_IGNORE_FOLDERS == { <<"d", "o", "s", "d", "e", "v", "i", "c", "e", "s">>, <<"n", "i", "x", "p", "k", "g", "s">>, GIT_DIR, <<".", "c", "a", "c", "h", "e">> }
HOMEFINDER_DOCUMENTS_FOLDER == << nDOCUMENTOS, nDOCUMENTS >>

cfg == WorldConfig(w)
OutPath == AbsPath(OutLoc)

Op(op, app, p) == [op |-> op, app |-> app, p |-> p]
Todo(app, rule, path, top, base, var) ==
    [app |-> app, rule |-> rule, path |-> path, top |-> top, base |-> base, var |-> var]

\* the applications registered under a variable
VarUsers(var) == { vu[2] : vu \in { x \in var_users : x[1] = var } }

\* the applications that have a rule file
AppsWithRules == { app \in Apps : RuleLines(w, app) # <<>> }

\* parse_rules(app)
ParseRules(app) == ParseLines(cfg, app, RuleLines(w, app))

RECURSIVE SubstRules(_, _, _, _, _, _)
\* one application's rules with `token` replaced by `value`; a rule the
\* replacement leaves unchanged is skipped
SubstRules(rules, game, token, value, base, var) ==
    IF rules = <<>> THEN <<>>
    ELSE LET rule_name == Head(rules)[1]
             rule_path == Head(rules)[2]
             resolved_rule_path == Replace(rule_path, <<"$">> \o token, value)
             rest == SubstRules(Tail(rules), game, token, value, base, var)
         IN  IF rule_path # resolved_rule_path
             THEN <<Todo(game, rule_name, resolved_rule_path, TRUE, BaseOf(base), var)>> \o rest
             ELSE rest

RECURSIVE ForGames(_, _, _, _)
\* `for game in var_users[var]: for rule in parse_rules(game): ...`
ForGames(games, var, value, base) ==
    IF games = <<>> THEN <<>>
    ELSE SubstRules(ParseRules(Head(games)), Head(games), var, value, base, var)
         \o ForGames(Tail(games), var, value, base)

Init ==
    /\ w \in { x \in Worlds : Deviations(x) <= MaxDeviations }
    /\ m = [fs |-> WorldFs(w), news |-> <<>>, events |-> <<>>, calls |-> <<>>, exc |-> "",
            head |-> <<>>, gitlog |-> <<>>]
    /\ now = 1
    /\ run = 1
    /\ pc = "setup"
    /\ var_users = {}
    /\ plan = <<>>
    /\ todo = <<>>
    /\ homes = <<>>
    /\ gen = <<>>
    /\ has_program_files = FALSE
    /\ start_time = 0
    /\ unit = NoUnit

\* the opening checks without the one on the output path
SetupFailsOutputUnchecked == w.gitmode = "missing" \/ ~w.config_is_file

\* the three checks that open main(): git, the configuration file, the output
SetupFails ==
    \/ w.gitmode = "missing"
    \/ ~w.config_is_file
    \/ ~(IsDir(m.fs, OutPath) \/ ~Exists(m.fs, OutPath))

\* main() raises before it touches anything
SetupAbort ==
    /\ pc = "setup"
    /\ SetupFails
    /\ pc' = "aborted"
    /\ UNCHANGED <<w, m, now, run, var_users, plan, todo, homes, gen, has_program_files,
                   start_time>>

\* main() from the argument checks to the start of rule loading
Setup ==
    /\ pc = "setup"
    /\ ~SetupFails
    /\ LET rev == w.rev IN
        LET cx  == [now |-> now, run |-> run, rev |-> rev, backlink |-> w.backlink,
                    git |-> w.gitmode = "on", ignored |-> cfg.ignored, var |-> <<>>]
            f1  == Mkdirs(m.fs, OutPath, now).fs
            m1  == [m EXCEPT !.fs = f1]
            gd  == Child(OutPath, GIT_DIR)
            m2  == IF cx.git /\ ~Exists(f1, gd)
                   THEN Git([m1 EXCEPT !.fs = Mkdirs(f1, gd, now).fs, !.head = <<>>], cx, <<"init">>)
                   ELSE m1
            m3  == IF cx.git /\ GitIsRepoDirty(m2)
                   THEN GitCommit(Git(Git(Git(m2, cx, <<"add">>), cx, <<"stash", "push">>),
                                      cx, <<"stash", "pop">>), cx, <<"dirty repo state">>)
                   ELSE m2
            m4  == [m3 EXCEPT !.fs = Mkdirs(m3.fs, Child(OutPath, RULES_SUBDIR), now).fs]
        IN  /\ m' = m4
            /\ plan' = [i \in 1..Cardinality(AppsWithRules) |->
                          Op("rulefile", OrderOf(AppsWithRules, rev)[i], NoTarget)]
                       \o <<Op("installdir", <<>>, NoTarget), Op("get_homes", <<>>, NoTarget)>>
    /\ pc' = "running"
    /\ var_users' = {}
    /\ todo' = <<>>
    /\ homes' = <<>>
    /\ gen' = <<>>
    /\ has_program_files' = FALSE
    /\ start_time' = now
    /\ UNCHANGED <<w, now, run>>

Step(op) == pc = "running" /\ todo = <<>> /\ plan # <<>> /\ Head(plan).op = op

\* one ingest_path call issued by main()
IngestStep ==
    /\ pc = "running"
    /\ todo # <<>>
    /\ LET rev == w.rev IN
        LET t  == Head(todo)
            cx == [now |-> now, run |-> run, rev |-> rev, backlink |-> w.backlink,
                   git |-> w.gitmode = "on", ignored |-> cfg.ignored, var |-> t.var]
        IN  m' = IngestPath(m, cx, 0, t.app, t.rule, t.path, t.top, t.base)
    /\ todo' = Tail(todo)
    /\ UNCHANGED <<w, now, run, pc, var_users, plan, homes, gen, has_program_files, start_time>>

RECURSIVE IndexRules(_, _)
\* the rule-loading loop over one file: [users, calls], the index entries to
\* add and the ingest_path calls of the rules that hold no variable
IndexRules(rules, appname) ==
    IF rules = <<>> THEN [users |-> {}, calls |-> <<>>]
    ELSE LET rule_name == Head(rules)[1]
             rule_path == Head(rules)[2]
             variables == RuleVariables(rule_path)
             rest == IndexRules(Tail(rules), appname)
         IN  IF variables = <<>>
             THEN [rest EXCEPT !.calls =
                     <<Todo(appname, rule_name, rule_path, FALSE, NoBase, <<>>)>> \o @]
             ELSE [rest EXCEPT !.users = @ \cup { <<variables[i], appname>> : i \in 1..Len(variables) }]

\* the body of `for rulefile in ruledir.glob("*.txt")`
LoadRuleFile ==
    /\ Step("rulefile")
    /\ LET r == IndexRules(ParseRules(Head(plan).app), Head(plan).app)
       IN  /\ var_users' = var_users \cup r.users
           /\ todo' = r.calls
    /\ plan' = Tail(plan)
    /\ UNCHANGED <<w, m, now, run, pc, homes, gen, has_program_files, start_time>>

\* `for game in var_users["installdir"]`
InstallDirGames ==
    /\ Step("installdir")
    /\ LET rev == w.rev IN
        LET games == OrderOf(VarUsers(<<"i", "n", "s", "t", "a", "l", "l", "d", "i", "r">>), rev)
        IN  plan' = [i \in 1..Len(games) |-> Op("installdir_game", games[i], NoTarget)]
                    \o Tail(plan)
    /\ UNCHANGED <<w, m, now, run, pc, var_users, todo, homes, gen, has_program_files, start_time>>

\* one game of the installdir loop: its configured install directories
InstallDirGame ==
    /\ Step("installdir_game")
    /\ LET rev == w.rev IN
        LET game == Head(plan).app
            dirs == OrderOf(cfg.installdir[game], rev)
        IN  IF dirs = <<>>
            THEN /\ m' = IF game \notin cfg.not_installed
                         THEN WarningNews(m, News("installdir_missing", game, <<>>, <<>>))
                         ELSE m
                 /\ plan' = Tail(plan)
            ELSE /\ m' = m
                 /\ plan' = [i \in 1..Len(dirs) |-> Op("installdir_dir", game, dirs[i])]
                            \o Tail(plan)
    /\ UNCHANGED <<w, now, run, pc, var_users, todo, homes, gen, has_program_files, start_time>>

\* os.stat fails with EACCES: a directory on the way to p may not be entered
Denied(f, p) ==
    \E k \in 1..(Len(p.parts) - 1) :
        /\ SubSeq(p.parts, 1, k) \in DOMAIN f
        /\ f[SubSeq(p.parts, 1, k)].ro

\* one install directory of one game: every rule with $installdir replaced.
\* game_install_dir.exists() on a path that may not be reached raises
\* PermissionError where Path.exists passes EACCES on, and answers False
\* where it does not; the loop is outside main()'s try, so the exception
\* ends the run there
InstallDirDir ==
    /\ Step("installdir_dir")
    /\ LET game == Head(plan).app
           game_install_dir == Head(plan).p
       IN  \/ /\ Denied(m.fs, game_install_dir)
              /\ pc' = "crashed"
              /\ plan' = <<>>
              /\ UNCHANGED <<m, todo>>
           \/ /\ ~Exists(m.fs, game_install_dir) \/ Denied(m.fs, game_install_dir)
              /\ m' = WarningNews(m, News("installdir_absent", game, <<>>, Str(game_install_dir)))
              /\ todo' = <<>>
              /\ plan' = Tail(plan)
              /\ pc' = pc
           \/ /\ Exists(m.fs, game_install_dir) /\ ~Denied(m.fs, game_install_dir)
              /\ m' = m
              /\ todo' = IF IsPathIgnored(Str(game_install_dir), cfg.ignored) THEN <<>>
                         ELSE SubstRules(ParseRules(game), game, <<"i", "n", "s", "t", "a", "l", "l", "d", "i", "r">>,
                                         Str(AbsPath(Resolve(m.fs, game_install_dir))),
                                         game_install_dir, <<"i", "n", "s", "t", "a", "l", "l", "d", "i", "r">>)
              /\ plan' = Tail(plan)
              /\ pc' = pc
    /\ UNCHANGED <<w, now, run, var_users, homes, gen, has_program_files, start_time>>

Frame(k, p, d) == [k |-> k, p |-> p, d |-> d]

\* the early return of search_for_homes
SearchStops(f, start_dir, max_depth) ==
    \/ max_depth <= 0
    \/ IsSymlink(f, start_dir)
    \/ ~IsDir(f, start_dir)
    \/ IsPathIgnored(Str(start_dir), cfg.ignored)
    \/ NameOf(start_dir) \in HOMEFINDER_IGNORE_FOLDERS

\* a directory that holds one of the marker folders
IsHomeLike(f, start_dir) ==
    \E i \in 1..Len(HOMEFINDER_FIND_FOLDERS) : Exists(f, Child(start_dir, HOMEFINDER_FIND_FOLDERS[i]))

RECURSIVE AdvanceGen(_, _, _)
\* get_homes() resumed until its next yield: [found, home, gen, m]
\*   "extra"  one configured extra home
\*   "visit"  a search_for_homes call about to start on p with max_depth d
\*   "list"   that call resumed after its yield, about to iterate p
AdvanceGen(g, mm, rev) ==
    IF g = <<>> THEN [found |-> FALSE, home |-> NoTarget, gen |-> g, m |-> mm]
    ELSE LET fr == Head(g)
             kids == OrderOf(IterDir(mm.fs, fr.p), rev)
             below == [i \in 1..Len(kids) |-> Frame("visit", Child(fr.p, kids[i]), fr.d - 1)]
             listed == IF mm.fs[Resolve(mm.fs, fr.p)].ro THEN Tail(g) ELSE below \o Tail(g)
         IN  IF fr.k = "extra"
             THEN IF IsPathIgnored(Str(fr.p), cfg.ignored) THEN AdvanceGen(Tail(g), mm, rev)
                  ELSE IF ~Exists(mm.fs, fr.p)
                       THEN AdvanceGen(Tail(g),
                                WarningNews(mm, News("extra_home_absent", <<>>, <<>>, Str(fr.p))), rev)
                  ELSE [found |-> TRUE, home |-> fr.p, gen |-> Tail(g), m |-> mm]
             ELSE IF fr.k = "visit"
             THEN IF SearchStops(mm.fs, fr.p, fr.d) THEN AdvanceGen(Tail(g), mm, rev)
                  ELSE IF IsHomeLike(mm.fs, fr.p)
                       THEN [found |-> TRUE, home |-> fr.p,
                             gen |-> <<Frame("list", fr.p, fr.d)>> \o Tail(g), m |-> mm]
                  ELSE AdvanceGen(listed, mm, rev)
             ELSE IF IsDir(mm.fs, fr.p) THEN AdvanceGen(listed, mm, rev)
             ELSE AdvanceGen(Tail(g), mm, rev)

RECURSIVE DrainSearch(_, _, _)
DrainSearch(g, mm, rev) ==
    LET r == AdvanceGen(g, mm, rev)
    IN  IF ~r.found THEN <<>> ELSE <<r.home>> \o DrainSearch(r.gen, r.m, rev)

\* list(search_for_homes(start_dir, max_depth)) over the filesystem f
SearchForHomes(f, start_dir, max_depth, rev) ==
    DrainSearch(<<Frame("visit", start_dir, max_depth)>>, [fs |-> f, news |-> <<>>], rev)

\* get_homes() is called: the extra homes, then the search paths
GetHomes ==
    /\ Step("get_homes")
    /\ LET rev == w.rev IN
        LET extra  == OrderOf(cfg.extra_homes, rev)
            search == OrderOf(cfg.search_paths, rev)
        IN  gen' = [i \in 1..Len(extra) |-> Frame("extra", extra[i], 0)]
                   \o [i \in 1..Len(search) |-> Frame("visit", search[i], MaxDepth)]
    /\ plan' = <<Op("next_home", <<>>, NoTarget)>> \o Tail(plan)
    /\ UNCHANGED <<w, m, now, run, pc, var_users, todo, homes, has_program_files, start_time>>

\* `for homedir in get_homes()`: the next home, or the end of the loop
NextHome ==
    /\ Step("next_home")
    /\ LET rev == w.rev IN
        LET r == AdvanceGen(gen, m, rev)
            homedir == r.home
        IN  /\ gen' = r.gen
            /\ m' = r.m
            /\ IF ~r.found
               THEN /\ plan' = <<Op("finally", <<>>, NoTarget)>> \o Tail(plan)
                    /\ homes' = homes
               ELSE IF IsPathIgnored(Str(homedir), cfg.ignored)
               THEN /\ plan' = plan
                    /\ homes' = homes
               ELSE /\ plan' = << Op("home", <<>>, homedir), Op("appdata", <<>>, homedir),
                                  Op("program_files", <<>>, homedir) >>
                               \o [i \in 1..Len(HOMEFINDER_DOCUMENTS_FOLDER) |->
                                     Op("documents", HOMEFINDER_DOCUMENTS_FOLDER[i], homedir)]
                               \o plan
                    /\ homes' = Append(homes, homedir)
    /\ UNCHANGED <<w, now, run, pc, var_users, todo, has_program_files, start_time>>

\* `for game in var_users.get("home")`
HomeVar ==
    /\ Step("home")
    /\ LET rev == w.rev IN
        LET homedir == Head(plan).p
        IN  todo' = ForGames(OrderOf(VarUsers(<<"h", "o", "m", "e">>), rev), <<"h", "o", "m", "e">>, Str(homedir), homedir)
    /\ plan' = Tail(plan)
    /\ UNCHANGED <<w, m, now, run, pc, var_users, homes, gen, has_program_files, start_time>>

\* `for game in var_users["appdata"]`
AppdataVar ==
    /\ Step("appdata")
    /\ LET rev == w.rev IN
        LET appdata == Child(Head(plan).p, APPDATA)
        IN  todo' = ForGames(OrderOf(VarUsers(<<"a", "p", "p", "d", "a", "t", "a">>), rev), <<"a", "p", "p", "d", "a", "t", "a">>, Str(appdata), appdata)
    /\ plan' = Tail(plan)
    /\ UNCHANGED <<w, m, now, run, pc, var_users, homes, gen, has_program_files, start_time>>

\* one candidate of HOMEFINDER_DOCUMENTS_FOLDER
DocumentsVar ==
    /\ Step("documents")
    /\ LET rev == w.rev IN
        LET documents == Child(Head(plan).p, Head(plan).app)
        IN  todo' = IF Exists(m.fs, documents)
                    THEN ForGames(OrderOf(VarUsers(<<"d", "o", "c", "u", "m", "e", "n", "t", "s">>), rev), <<"d", "o", "c", "u", "m", "e", "n", "t", "s">>,
                                  Str(documents), documents)
                    ELSE <<>>
    /\ plan' = Tail(plan)
    /\ UNCHANGED <<w, m, now, run, pc, var_users, homes, gen, has_program_files, start_time>>

\* the Program Files search begins: the entries beside the home's parent
ProgramFilesSearch ==
    /\ Step("program_files")
    /\ LET rev == w.rev IN
        LET homedir == Head(plan).p
            around  == ParentOf(ParentOf(homedir))
            cands   == OrderOf(IterDir(m.fs, around), rev)
        IN  IF IsDir(m.fs, around) /\ ~m.fs[Resolve(m.fs, around)].ro
            THEN plan' = [i \in 1..Len(cands) |->
                            Op("candidate", <<>>, Child(around, cands[i]))]
                         \o <<Op("candidates_end", <<>>, homedir)>> \o Tail(plan)
            ELSE plan' = <<Op("finally", <<"r", "a", "i", "s", "e", "d">>, NoTarget)>>
    /\ has_program_files' = FALSE
    /\ UNCHANGED <<w, m, now, run, pc, var_users, todo, homes, gen, start_time>>

\* one program_files_candidate: skipped without "Common Files"; a candidate
\* that cannot be read raises PermissionError, which the loop catches
Candidate ==
    /\ Step("candidate")
    /\ LET rev == w.rev IN
        LET program_files == Head(plan).p
            found == Exists(m.fs, Child(program_files, nCOMMON))
            denied == IsDir(m.fs, program_files) /\ m.fs[Resolve(m.fs, program_files)].ro
        IN  IF denied
            THEN /\ has_program_files' = TRUE
                 /\ todo' = <<>>
                 /\ plan' = Tail(plan)
            ELSE IF ~found
            THEN /\ has_program_files' = has_program_files
                 /\ todo' = <<>>
                 /\ plan' = Tail(plan)
            ELSE /\ has_program_files' = TRUE
                 /\ todo' = ForGames(OrderOf(VarUsers(<<"p", "r", "o", "g", "r", "a", "m", "_", "f", "i", "l", "e", "s">>), rev), <<"p", "r", "o", "g", "r", "a", "m", "_", "f", "i", "l", "e", "s">>,
                                     Str(program_files), program_files)
                 /\ plan' = <<Op("ubisoft", <<>>, program_files)>> \o Tail(plan)
    /\ UNCHANGED <<w, m, now, run, pc, var_users, homes, gen, start_time>>


\* the lines of a text file
ReadLines(f, p) == f[Stat(f, p).loc].data

\* Path.write_text: the file is created or replaced
WriteLines(f, p, lines, t) ==
    LET r == Stat(f, p)
    IN  IF Found(f, r) THEN [f EXCEPT ![r.loc] = FileNode(t, lines)]
        ELSE AddEntry(f, r.loc, FileNode(t, lines), t)

RECURSIVE ForUsers(_, _, _)
\* `for ubisoft_user in ubisoft_users: for game in var_users["ubisoft"]: ...`
ForUsers(users, games, savegame_dir) ==
    IF users = <<>> THEN <<>>
    ELSE ForGames(games, <<"u", "b", "i", "s", "o", "f", "t">>, Str(Child(savegame_dir, Head(users))),
                  Child(savegame_dir, Head(users)))
         \o ForUsers(Tail(users), games, savegame_dir)

\* the user set rebuilt from the directories present alone
UbisoftUsersPresentOnly(known, present) == present

\* ubisoft_users: the cached identifiers and those of the directories present
UbisoftUsers(known, present) == known \cup present

\* the Ubisoft block of a Program Files directory: the cached user list is
\* read, united with the user directories present, and written back
Ubisoft ==
    /\ Step("ubisoft")
    /\ LET rev == w.rev IN
        LET program_files == Head(plan).p
            ubisoft_specific_dir == Child(OutPath, UBISOFT_DIR)
            f1 == Mkdirs(m.fs, ubisoft_specific_dir, now).fs
            ubisoft_users_file == Child(ubisoft_specific_dir, USERS_FILE)
            known == IF Exists(f1, ubisoft_users_file)
                     THEN { ReadLines(f1, ubisoft_users_file)[i] :
                              i \in 1..Len(ReadLines(f1, ubisoft_users_file)) }
                     ELSE {}
            ubisoft_savegame_dir ==
                Join(program_files, [abs |-> FALSE, parts |-> UBISOFT_SAVEGAMES])
            present == IF Exists(f1, ubisoft_savegame_dir)
                       THEN { u \in IterDir(f1, ubisoft_savegame_dir) :
                                IsDir(f1, Child(ubisoft_savegame_dir, u)) }
                       ELSE {}
            ubisoft_users == OrderOf(UbisoftUsers(known, present), rev)
        IN  /\ m' = [m EXCEPT !.fs = WriteLines(f1, ubisoft_users_file, ubisoft_users, now)]
            /\ todo' = ForUsers(ubisoft_users, OrderOf(VarUsers(<<"u", "b", "i", "s", "o", "f", "t">>), rev),
                                ubisoft_savegame_dir)
    /\ plan' = Tail(plan)
    /\ UNCHANGED <<w, now, run, pc, var_users, homes, gen, has_program_files, start_time>>

\* after the candidates: a home without a Program Files directory is reported
CandidatesEnd ==
    /\ Step("candidates_end")
    /\ m' = IF ~has_program_files
            THEN WarningNews(m, News("no_program_files", <<>>, <<>>, Str(Head(plan).p)))
            ELSE m
    /\ plan' = Tail(plan)
    /\ UNCHANGED <<w, now, run, pc, var_users, todo, homes, gen, has_program_files, start_time>>

\* the finally block of main(): run metrics, the last snapshot, the summary
Finally ==
    /\ Step("finally")
    /\ LET cx  == [now |-> now, run |-> run, rev |-> FALSE, backlink |-> w.backlink,
                   git |-> w.gitmode = "on", ignored |-> cfg.ignored, var |-> <<>>]
           this_node_metric_dir == Child(Child(OutPath, META_DIR), HOSTNAME)
           f1  == Mkdirs(m.fs, this_node_metric_dir, now).fs
           last == Child(this_node_metric_dir, <<"l", "a", "s", "t", "_", "r", "u", "n", ".", "t", "x", "t">>)
           times == Child(this_node_metric_dir, <<"r", "u", "n", "_", "t", "i", "m", "e", "s", ".", "t", "x", "t">>)
           f2  == WriteLines(f1, last, << DecStr(now) >>, now)
           old == IF Exists(f2, times) THEN ReadLines(f2, times) ELSE <<>>
           f3  == WriteLines(f2, times,
                             Append(old, DecStr(start_time) \o <<",">> \o DecStr(now - start_time)),
                             now)
           m1  == [m EXCEPT !.fs = f3]
       IN  m' = Git(Git(GitCommit(m1, cx, <<"run report">>), cx, <<"pull">>), cx, <<"push">>)
    /\ pc' = IF Head(plan).app = <<"r", "a", "i", "s", "e", "d">> THEN "crashed" ELSE "done"
    /\ plan' = Tail(plan)
    /\ UNCHANGED <<w, now, run, var_users, todo, homes, gen, has_program_files, start_time>>

\* the program is started again on the same machine
Rerun ==
    /\ pc = "done"
    /\ run < MaxRuns
    /\ pc' = "setup"
    /\ run' = run + 1
    /\ m' = [m EXCEPT !.news = <<>>]
    /\ UNCHANGED <<w, now, var_users, plan, todo, homes, gen, has_program_files, start_time>>

\* time passes between two runs, and before the first
Tick ==
    /\ pc = "setup"
    /\ now < MaxTime
    /\ now' = now + 1
    /\ UNCHANGED <<w, m, run, pc, var_users, plan, todo, homes, gen, has_program_files,
                   start_time>>

Next ==
    /\ \/ SetupAbort
       \/ Setup
       \/ LoadRuleFile
       \/ IngestStep
       \/ InstallDirGames
       \/ InstallDirGame
       \/ InstallDirDir
       \/ GetHomes
       \/ NextHome
       \/ HomeVar
       \/ AppdataVar
       \/ ProgramFilesSearch
       \/ Candidate
       \/ Ubisoft
       \/ CandidatesEnd
       \/ DocumentsVar
       \/ Finally
       \/ Rerun
       \/ Tick
    /\ UNCHANGED unit

Spec == Init /\ [][Next]_vars

(***************************************************************************)
(* What the history records, for the properties below.                     *)
(***************************************************************************)
Calls == 1..Len(m.calls)
Events == 1..Len(m.events)

\* the events of invocation i of ingest_path
EventsOf(i) == { j \in Events : m.events[j].call = i }

\* invocation i copied, quarantined or symlinked something
Acted(i) == \E j \in EventsOf(i) : m.events[j].ev \in {"copy", "quarantine", "symlink"}

\* the diagnostics of the current run hold item
Reported(item) == \E k \in 1..Len(m.news) : m.news[k] = item

(***************************************************************************)
(* C1  Containment.  Every ingest_path call with a trusted base copies,    *)
(* quarantines or symlinks something only if its resolved path is the      *)
(* resolved base or lies below it in the directory tree; a call whose      *)
(* resolved path is anywhere else (a sibling directory whose name begins   *)
(* with the base's name included) is rejected and does nothing.            *)
(***************************************************************************)
C1_Containment ==
    \A i \in Calls :
        (m.calls[i].base.set /\ ~IsUnder(m.calls[i].resolved, m.calls[i].baseres))
            => (~Acted(i) /\ m.calls[i].outcome = "rejected_base")

(***************************************************************************)
(* C2  An ingest_path call without a trusted base whose path is absolute   *)
(* and holds no wildcard is rejected: a security diagnostic naming the     *)
(* application and the path is appended, and the call copies, quarantines  *)
(* and symlinks nothing (it changes nothing at all).                       *)
(***************************************************************************)
C2_UntrustedAbsoluteRejected ==
    \A i \in Calls :
        LET c == m.calls[i]
        IN  (~c.base.set /\ PathOf(c.path).abs /\ ~HasStar(c.path))
                => /\ c.outcome = "rejected_absolute"
                   /\ EventsOf(i) = {}
                   /\ c.run = run => Reported(News("security_absolute", c.app, <<>>, c.path))

\* C2 witness: such a call was made on a path that exists, and was rejected
C2_Witness ==
    \E i \in Calls :
        /\ ~m.calls[i].base.set /\ PathOf(m.calls[i].path).abs /\ ~HasStar(m.calls[i].path)
        /\ Exists(m.fs, PathOf(m.calls[i].path))
        /\ m.calls[i].outcome = "rejected_absolute"

(***************************************************************************)
(* C3  No self-copy.  No file is ever copied from a source whose resolved  *)
(* location lies inside the output directory, at any depth of copy_item's  *)
(* recursion, and an ingest_path call whose resolved path lies inside the  *)
(* output directory copies nothing.                                        *)
(***************************************************************************)
C3_NoSelfCopy ==
    \A j \in Events :
        m.events[j].ev = "copy"
            => /\ ~IsUnder(m.events[j].src, OutLoc)
               /\ ~IsUnder(m.calls[m.events[j].call].resolved, OutLoc)

\* C3 witness: copy_item met an existing source inside the output directory
C3_Witness ==
    \E j \in Events :
        /\ m.events[j].ev = "skip_inside_output"
        /\ IsUnder(m.events[j].src, OutLoc)
        /\ m.events[j].src \in DOMAIN m.fs

(***************************************************************************)
(* C4  Idempotence.  When the program runs again over source files that    *)
(* did not change since the previous run, the later run copies no file:    *)
(* every copy belongs to the first run.                                    *)
(***************************************************************************)
C4_Idempotence == \A j \in Events : m.events[j].ev = "copy" => m.events[j].run = 1

(***************************************************************************)
(* C5  Glob expansion.  For a rule `<rule_name> $installdir/<dir>/<glob>`  *)
(* resolved against an install directory, every regular file of <dir>     *)
(* whose name n matches the glob gets an ingest_path call of its own, made *)
(* by the rule's call under the rule name <rule_name>/n, and is then the   *)
(* file output/<app>/<rule_name>/n with the source's content; a name that  *)
(* does not match gets no call.                                            *)
(***************************************************************************)
C5_GlobExpansion ==
    \A i \in Calls :
        LET c      == m.calls[i]
            parent == ParentOf(PathOf(c.path))
            glob   == NameOf(PathOf(c.path))
            branch(n) == \E k \in Calls : /\ m.calls[k].caller = i
                                          /\ m.calls[k].path = Str(Child(parent, n))
                                          /\ m.calls[k].rule = Str(Join(PathOf(c.rule), PathOf(n)))
        IN  (c.caller = 0 /\ c.var = <<"i", "n", "s", "t", "a", "l", "l", "d", "i", "r">>
                /\ c.outcome = "glob")
                => \A n \in IterDir(m.fs, parent) :
                     IF FnMatch(n, glob) /\ IsFile(m.fs, Child(parent, n))
                     THEN /\ branch(n)
                          /\ IsFile(m.fs, Child(OutputDir(c.app, c.rule), n))
                          /\ ReadLines(m.fs, Child(OutputDir(c.app, c.rule), n))
                               = ReadLines(m.fs, Child(parent, n))
                     ELSE ~branch(n)

\* C5 witness: a run ended in which an $installdir glob matched two files
\* of a directory and left a third unmatched
C5_Witness ==
    /\ pc = "done"
    /\ \E i \in Calls :
        LET c      == m.calls[i]
            parent == ParentOf(PathOf(c.path))
            glob   == NameOf(PathOf(c.path))
        IN  /\ c.caller = 0 /\ c.var = <<"i", "n", "s", "t", "a", "l", "l", "d", "i", "r">>
            /\ c.outcome = "glob"
            /\ Cardinality({ n \in IterDir(m.fs, parent) : FnMatch(n, glob) }) = 2
            /\ \E n \in IterDir(m.fs, parent) : ~FnMatch(n, glob)
            /\ \E j \in Events : m.events[j].ev = "copy" /\ m.calls[m.events[j].call].caller = i

(***************************************************************************)
(* C6  Backlink round-trip.  With backlink mode on, a top-level call whose *)
(* original path is a real file moves that file to                         *)
(* output/__backup__/<name>.<timestamp> and then makes the original path a *)
(* symlink to output/<app>/<rule_name>; from then on the original path     *)
(* stays a symlink to that target, and the same ingestion in a later run   *)
(* quarantines nothing.                                                    *)
(***************************************************************************)
C6_BacklinkRoundTrip ==
    /\ \A i \in Calls :
         LET c == m.calls[i]
         IN  (w.backlink /\ c.top /\ ~HasStar(c.path) /\ ~c.raised
                /\ \E j \in EventsOf(i) : /\ m.events[j].ev \in {"copy", "skip_mtime"}
                                          /\ m.events[j].src = c.resolved)
                => \E j \in EventsOf(i) : /\ m.events[j].ev = "quarantine"
                                          /\ m.events[j].src = c.resolved
    /\ \A j \in Events :
         LET e == m.events[j]
             c == m.calls[e.call]
         IN  e.ev = "quarantine"
                => /\ \E t \in 1..now :
                        e.dst = OutLoc \o <<BACKUP_DIR,
                                            NameOf(PathOf(c.path)) \o <<".">> \o DecStr(t)>>
                   /\ e.dst \in DOMAIN m.fs
                   /\ \E k \in EventsOf(e.call) :
                        /\ k > j
                        /\ m.events[k].ev = "symlink"
                        /\ m.events[k].src = e.src
                        /\ m.events[k].dst = Resolve(m.fs, OutputDir(c.app, c.rule))
    /\ \A j \in Events :
         LET e == m.events[j]
             c == m.calls[e.call]
         IN  e.ev = "symlink"
                => /\ IsSymlink(m.fs, PathOf(c.path))
                   /\ m.fs[LStat(m.fs, PathOf(c.path)).loc].target = OutputDir(c.app, c.rule)
                   /\ \A i \in Calls :
                        (m.calls[i].run > c.run /\ m.calls[i].app = c.app
                            /\ m.calls[i].rule = c.rule /\ m.calls[i].path = c.path)
                            => \A k \in EventsOf(i) : m.events[k].ev # "quarantine"

\* C6 witness: a file was quarantined and replaced by a symlink in the first
\* run, and the second run made the same call and ended
C6_Witness ==
    /\ pc = "done" /\ run = 2
    /\ \E j \in Events :
         /\ m.events[j].ev = "quarantine" /\ m.events[j].run = 1
         /\ m.fs[m.events[j].dst].kind = "file"
         /\ \E i \in Calls : /\ m.calls[i].run = 2
                             /\ m.calls[i].path = m.calls[m.events[j].call].path
                             /\ m.calls[i].rule = m.calls[m.events[j].call].rule

(***************************************************************************)
(* Rules and the calls main() owes them.                                   *)
(***************************************************************************)
vHOME == <<"h", "o", "m", "e">>
vAPPDATA == <<"a", "p", "p", "d", "a", "t", "a">>

\* the template holds "$" followed by the variable's name
Mentions(template, var) == Replace(template, <<"$">> \o var, <<>>) # template

SeqRange(seq) == { seq[r] : r \in 1..Len(seq) }
RulesOf(app) == SeqRange(ParseRules(app))

\* run r made a top-level call for every rule that mentions var, with the
\* variable replaced by value and base as the trusted base
AttemptedFor(r, var, value, base) ==
    \A app \in Apps : \A rule \in RulesOf(app) :
        Mentions(rule[2], var)
            => \E i \in Calls :
                 /\ m.calls[i].run = r /\ m.calls[i].caller = 0
                 /\ m.calls[i].app = app /\ m.calls[i].rule = rule[1]
                 /\ m.calls[i].var = var
                 /\ m.calls[i].path = Replace(rule[2], <<"$">> \o var, value)
                 /\ m.calls[i].base = BaseOf(base)

\* the current run made the $home and $appdata calls of every home it found
AllHomesAttempted ==
    \A h \in 1..Len(homes) :
        /\ AttemptedFor(run, vHOME, Str(homes[h]), homes[h])
        /\ AttemptedFor(run, vAPPDATA, Str(Child(homes[h], APPDATA)), Child(homes[h], APPDATA))

(***************************************************************************)
(* C7  Variable indexing.  A finished run has made, for every home it      *)
(* found, an ingest_path call for every rule that mentions $home with      *)
(* $home replaced by the home, and for every rule that mentions $appdata   *)
(* with $appdata replaced by the home's AppData; and a call made for a     *)
(* variable belongs to a rule of that application that mentions the        *)
(* variable: when A's rules mention only $home and B's only $appdata, A is *)
(* called for $home only and B for $appdata only.                          *)
(***************************************************************************)
C7_VariableIndexing ==
    /\ pc = "done" => AllHomesAttempted
    /\ \A app \in Apps :
         LET rules == RulesOf(app)
         IN  \A i \in Calls :
                (m.calls[i].app = app /\ m.calls[i].caller = 0 /\ m.calls[i].var # <<>>)
                    => \E rule \in rules :
                         /\ rule[1] = m.calls[i].rule
                         /\ Mentions(rule[2], m.calls[i].var)

\* C7 witness: A's rules mention only $home, B's only $appdata, one home was
\* found, and the run ended with calls for both
C7_Witness ==
    /\ pc = "done" /\ Len(homes) = 1
    /\ RulesOf(appA) # {} /\ RulesOf(appB) # {}
    /\ \A rule \in RulesOf(appA) : Mentions(rule[2], vHOME) /\ ~Mentions(rule[2], vAPPDATA)
    /\ \A rule \in RulesOf(appB) : Mentions(rule[2], vAPPDATA) /\ ~Mentions(rule[2], vHOME)
    /\ \E i \in Calls : m.calls[i].app = appA /\ m.calls[i].var = vHOME
    /\ \E i \in Calls : m.calls[i].app = appB /\ m.calls[i].var = vAPPDATA

\* the run was ended by the listing of the Program Files candidates of the
\* last home it entered (an exception raised in main(), not in ingest_path)
EndedByCandidateListing ==
    /\ pc = "crashed"
    /\ homes # <<>>
    /\ LET around == ParentOf(ParentOf(homes[Len(homes)]))
       IN  ~IsDir(m.fs, around) \/ m.fs[Resolve(m.fs, around)].ro

(***************************************************************************)
(* C8  Diagnostic non-fatality.  No exception leaves ingest_path; when a   *)
(* call for (app X, rule Y) raised, the run still ends having made the     *)
(* calls of every other rule, and its diagnostics hold an entry naming X   *)
(* and Y.  (A run that main() itself ends while it lists the Program Files *)
(* candidates is not ended by the call.)                                   *)
(***************************************************************************)
C8_DiagnosticNonFatality ==
    /\ m.exc = ""
    /\ \A i \in Calls :
         (m.calls[i].raised /\ m.calls[i].run = run)
            => /\ Reported(News("error", m.calls[i].app, m.calls[i].rule, m.calls[i].path))
               /\ pc \in {"running", "done"} \/ EndedByCandidateListing
               /\ pc = "done" => AllHomesAttempted

\* C8 witness: a call raised, a later call of the same run for another rule
\* copied a file, and the run ended
C8_Witness ==
    /\ pc = "done"
    /\ \E i, k \in Calls :
         /\ m.calls[i].raised /\ m.calls[i].run = run
         /\ k > i /\ m.calls[k].run = run
         /\ <<m.calls[k].app, m.calls[k].rule>> # <<m.calls[i].app, m.calls[i].rule>>
         /\ \E j \in EventsOf(k) : m.events[j].ev = "copy"

(***************************************************************************)
(* C9  A call that reaches the glob branch with a wildcard in a segment    *)
(* other than the last aborts that rule only: it raises, copies nothing,   *)
(* expands nothing, a diagnostic naming the application and the rule is    *)
(* recorded, and the run goes on to call the other rules of the variable.  *)
(* (A run that main() itself ends while it lists the Program Files         *)
(* candidates is not ended by the rule.)                                   *)
(***************************************************************************)
C9_GlobInParentAbortsRule ==
    \A i \in Calls :
        LET c == m.calls[i]
        IN  (HasStar(Str(ParentOf(PathOf(c.path))))
                /\ c.outcome \notin {"rejected_base", "rejected_absolute", "ignored"})
                => /\ c.raised
                   /\ EventsOf(i) = {}
                   /\ \A k \in Calls : m.calls[k].caller # i
                   /\ c.run = run => Reported(News("error", c.app, c.rule, c.path))
                   /\ pc \notin {"aborted", "crashed"} \/ EndedByCandidateListing
                   /\ (c.run < run \/ pc = "done")
                        => \A app \in Apps : \A rule \in RulesOf(app) :
                             Mentions(rule[2], c.var)
                                => \E k \in Calls : /\ m.calls[k].run = c.run
                                                    /\ m.calls[k].app = app
                                                    /\ m.calls[k].rule = rule[1]

\* C9 witness: a template with a wildcard before its last segment raised,
\* and a later rule of the same run copied a file
C9_Witness ==
    \E i, k \in Calls :
        /\ HasStar(Str(ParentOf(PathOf(m.calls[i].path)))) /\ m.calls[i].raised
        /\ k > i /\ m.calls[k].run = m.calls[i].run /\ m.calls[k].rule # m.calls[i].rule
        /\ \E j \in EventsOf(k) : m.events[j].ev = "copy"

(***************************************************************************)
(* C10  Setup errors are a hard stop before any work.  When the            *)
(* configuration path is not a file, or the output path exists and is not  *)
(* a directory, the run aborts with nothing loaded, discovered, ingested   *)
(* or written; a run aborts for no other reason than the opening checks,   *)
(* and a step that records a diagnostic leaves the run going.              *)
(***************************************************************************)
C10_SetupHardStop ==
    [][/\ (pc = "setup" /\ (~w.config_is_file
                              \/ (Exists(m.fs, OutPath) /\ ~IsDir(m.fs, OutPath))))
            => /\ pc' \in {"setup", "aborted"}
               /\ m' = m /\ var_users' = var_users /\ homes' = homes
               /\ plan' = plan /\ todo' = todo
       /\ (pc' = "aborted" /\ pc # "aborted")
            => /\ pc = "setup"
               /\ \/ ~w.config_is_file
                  \/ w.gitmode = "missing"
                  \/ Exists(m.fs, OutPath) /\ ~IsDir(m.fs, OutPath)
       /\ Len(m'.news) > Len(m.news) => pc = "running" /\ pc' = "running"
      ]_vars

\* C10 witness: a run aborted on an output path that is a file, before
\* anything was loaded, found or ingested
C10_Witness ==
    /\ pc = "aborted"
    /\ Exists(m.fs, OutPath) /\ ~IsDir(m.fs, OutPath)
    /\ m.calls = <<>> /\ m.events = <<>> /\ var_users = {} /\ homes = <<>>

(***************************************************************************)
(* C11  The final reporting phase runs unconditionally.  A run that ended  *)
(* because install-directory resolution or home discovery raised has       *)
(* still written last_run.txt and its line of run_times.txt and, with git  *)
(* enabled, has still attempted the final snapshot.                        *)
(***************************************************************************)
MetricDir == Child(Child(OutPath, META_DIR), HOSTNAME)
LastRunFile == Child(MetricDir, <<"l", "a", "s", "t", "_", "r", "u", "n", ".", "t", "x", "t">>)
RunTimesFile == Child(MetricDir, <<"r", "u", "n", "_", "t", "i", "m", "e", "s", ".", "t", "x", "t">>)

\* the finally block of the current run has run
FinalReportWritten ==
    /\ IsFile(m.fs, LastRunFile) /\ ReadLines(m.fs, LastRunFile) = << DecStr(now) >>
    /\ IsFile(m.fs, RunTimesFile) /\ Len(ReadLines(m.fs, RunTimesFile)) = run
    /\ w.gitmode = "on"
         => /\ Len(m.gitlog) >= 2
            /\ m.gitlog[Len(m.gitlog)] = <<"push">>
            /\ m.gitlog[Len(m.gitlog) - 1] = <<"pull">>

C11_FinalReportUnconditional == pc = "crashed" => FinalReportWritten

(***************************************************************************)
(* Helper functions called on their own: the arguments are drawn when the  *)
(* call starts, and one step returns the result.                           *)
(***************************************************************************)
MaxLine == 4

\* the strings of at most n characters over the alphabet
Texts(alphabet, n) == UNION { [1..k -> alphabet] : k \in 0..n }

LineChars == {" ", "\t", "a", "b"}
\* a rule file: no line, one line, or one line before or after a fixed one
NeighbourLines == { <<>>, <<"b">>, <<"b", " ", "a">> }
RuleFiles ==
    {<<>>} \cup { <<l>> : l \in Texts(LineChars, MaxLine) }
           \cup { <<p, l>> : p \in NeighbourLines, l \in Texts(LineChars, MaxLine) }
           \cup { <<l, p>> : p \in NeighbourLines, l \in Texts(LineChars, MaxLine) }

\* the rule names that can carry an ignore_ key in the section of the app
IgnoreKeys == SUBSET { <<"a">> }

ParseRulesInputs ==
    { [fn |-> "parse_rules", lines |-> f, ignore |-> i, done |-> FALSE, ret |-> <<>>] :
        f \in RuleFiles, i \in IgnoreKeys }

\* Optional[...]: None, or the value
None == <<>>
Some(x) == <<x>>

\* config_utils.get_str: the configuration is the set of its sections and
\* the values of its (section, key) pairs
GetStr(config, section, key) ==
    IF section \notin config.sections \/ <<section, key>> \notin DOMAIN config.values
    THEN None
    ELSE Some(config.values[<<section, key>>])

\* Python's `x or default` for an optional string
OrElse(x, default) == IF x = None \/ x = Some(<<>>) THEN default ELSE x[1]

RECURSIVE SplitOn(_, _, _)
\* str.split(sep) for a non-empty sep; cur is the item being read
SplitOn(s, sep, cur) ==
    IF s = <<>> THEN <<cur>>
    ELSE IF StartsWith(s, sep) THEN <<cur>> \o SplitOn(SubSeq(s, Len(sep) + 1, Len(s)), sep, <<>>)
    ELSE SplitOn(Tail(s), sep, Append(cur, Head(s)))

\* get_list with every item stripped
GetListStripped(config, section, key) ==
    LET divider == OrElse(GetStr(config, <<"general">>, <<"divider">>), <<",">>)
        raw == Strip(OrElse(GetStr(config, section, key), <<>>))
        items == SplitOn(raw, divider, <<>>)
    IN  IF raw = <<>> THEN None ELSE Some([i \in 1..Len(items) |-> Strip(items[i])])

\* config_utils.get_list
GetList(config, section, key) ==
    LET divider == OrElse(GetStr(config, <<"general">>, <<"divider">>), <<",">>)
        raw == Strip(OrElse(GetStr(config, section, key), <<>>))
    IN  IF raw = <<>> THEN None ELSE Some(SplitOn(raw, divider, <<>>))

ListChars == {" ", ",", ";", "a"}
Dividers == { <<>>, <<",">>, <<";">>, <<",", ",">>, <<",", " ">> }
secS == <<"s">>
keyK == <<"k">>
\* configurations with or without the section, the key and the divider
Configs ==
    { [sections |-> {secS}, values |-> <<>>], [sections |-> {}, values |-> <<>>],
      [sections |-> {<<"general">>}, values |-> <<>>] }
    \cup { [sections |-> {secS}, values |-> (<<secS, keyK>> :> v)] : v \in Texts(ListChars, MaxLine) }
    \cup { [sections |-> {secS, <<"general">>},
            values |-> (<<secS, keyK>> :> v) @@ (<<<<"general">>, <<"divider">>>> :> d)] :
                v \in Texts(ListChars, MaxLine), d \in Dividers }

GetListInputs ==
    { [fn |-> "get_list", config |-> c, done |-> FALSE, ret |-> None] : c \in Configs }

\* get_list(config, "s", "k")
GetListUnit ==
    /\ unit.fn = "get_list"
    /\ ~unit.done
    /\ unit' = [unit EXCEPT !.done = TRUE, !.ret = GetList(unit.config, secS, keyK)]

MaxGitCalls == 2

GitPath == "/usr/bin/git"
\* the parameter lists passed to run, and what `git status -s` would print
GitParams == { <<>>, <<"status">>, <<"add", "-A">> }
GitStatusOutputs == { "", "M file.txt" }

\* GitManager.__init__ raises
GitManagerInitRaises(binary, enabled) == enabled /\ binary = None

\* GitManager.__init__: the fields of the new object
GitManagerInit(binary, enabled) == [binary |-> binary, enabled |-> enabled]

\* GitManager.run without the test that opens it
GitManagerRunAlways(self, spawned, params) ==
    Append(spawned, self.binary \o params)

\* GitManager.run: the subprocesses spawned so far, and then
GitManagerRun(self, spawned, params) ==
    IF ~self.enabled \/ self.binary = None THEN spawned
    ELSE Append(spawned, <<self.binary[1]>> \o params)

\* GitManager.is_dirty: its subprocess
GitManagerIsDirtySpawn(self, spawned) ==
    IF ~self.enabled \/ self.binary = None THEN spawned
    ELSE Append(spawned, <<self.binary[1], "status", "-s">>)

\* GitManager.is_dirty: its result, stdout being the output of the subprocess
GitManagerIsDirty(self, stdout) ==
    IF ~self.enabled \/ self.binary = None THEN FALSE ELSE stdout # ""

GitManagerInputs ==
    { [fn |-> "git_manager", which |-> b, enabled |-> e, state |-> "new",
       self |-> GitManagerInit(None, FALSE), spawned |-> <<>>, calls |-> <<>>] :
        b \in {None, Some(GitPath)}, e \in BOOLEAN }

\* GitManager(enabled)
GitManagerNew ==
    /\ unit.fn = "git_manager"
    /\ unit.state = "new"
    /\ IF GitManagerInitRaises(unit.which, unit.enabled)
       THEN unit' = [unit EXCEPT !.state = "raised"]
       ELSE unit' = [unit EXCEPT !.state = "ready",
                                 !.self = GitManagerInit(unit.which, unit.enabled)]

\* mgr.run(*params)
GitManagerRunUnit ==
    /\ unit.fn = "git_manager"
    /\ unit.state = "ready"
    /\ Len(unit.calls) < MaxGitCalls
    /\ \E params \in GitParams :
           unit' = [unit EXCEPT !.spawned = GitManagerRun(unit.self, unit.spawned, params),
                                !.calls = Append(@, [op |-> "run", params |-> params,
                                                     stdout |-> "", ret |-> FALSE])]

\* mgr.is_dirty()
GitManagerIsDirtyUnit ==
    /\ unit.fn = "git_manager"
    /\ unit.state = "ready"
    /\ Len(unit.calls) < MaxGitCalls
    /\ \E stdout \in GitStatusOutputs :
           unit' = [unit EXCEPT !.spawned = GitManagerIsDirtySpawn(unit.self, unit.spawned),
                                !.calls = Append(@, [op |-> "is_dirty", params |-> <<>>,
                                                     stdout |-> stdout,
                                                     ret |-> GitManagerIsDirty(unit.self, stdout)])]

\* the trees search_for_homes is applied to: a chain /h/u, /h/u/g, /h/u/g/g, ...
\* of MaxDepth + 1 levels, each level with or without an entry named .config
\* (a folder or a plain file); /h/u/g is a directory or a symlink to the
\* home-like /e; /h/u/nixpkgs and /h/u/p are home-like directories
MarkKinds == {"absent", "dir", "file"}
nNIXPKGS == <<"n", "i", "x", "p", "k", "g", "s">>
RECURSIVE ChainLoc(_)
ChainLoc(k) == IF k = 0 THEN HomeLoc ELSE ChainLoc(k - 1) \o <<nG>>
SearchTree(marks, gKind) ==
    LET levels == IF gKind = "dir" THEN 0..MaxDepth ELSE {0}
        chain  == { Entry(ChainLoc(k), DirNode) : k \in levels }
        marked == { Entry(ChainLoc(k) \o <<nCONFIG>>,
                          IF marks[k] = "dir" THEN DirNode ELSE FileNode(0, <<>>)) :
                    k \in { l \in levels : marks[l] # "absent" } }
        link   == IF gKind = "link" THEN { Entry(HomeLoc \o <<nG>>, LinkNode(AbsPath(<<nE>>))) }
                  ELSE {}
        fixed  == { Entry(<<>>, DirNode), Entry(<<nH>>, DirNode),
                    Entry(<<nE>>, DirNode), Entry(<<nE, nCONFIG>>, DirNode),
                    Entry(HomeLoc \o <<nNIXPKGS>>, DirNode),
                    Entry(HomeLoc \o <<nNIXPKGS, nCONFIG>>, DirNode),
                    Entry(HomeLoc \o <<nP>>, DirNode),
                    Entry(HomeLoc \o <<nP, APPDATA>>, DirNode) }
    IN  FsOf(chain \cup marked \cup link \cup fixed)

SearchInputs ==
    { [fn |-> "search_for_homes", fs |-> SearchTree(marks, gKind), start |-> start,
       max_depth |-> d, ignored |-> ig, rev |-> rev, done |-> FALSE, ret |-> <<>>] :
      marks \in [0..MaxDepth -> MarkKinds], gKind \in {"dir", "link"},
      start \in {AbsPath(HomeLoc), AbsPath(HomeLoc \o <<nG>>)},
      d \in 0..MaxDepth, ig \in {"none", "g"}, rev \in BOOLEAN }

UnitInputs == ParseRulesInputs \cup GetListInputs \cup GitManagerInputs \cup SearchInputs

UnitInit ==
    /\ unit \in UnitInputs
    /\ w = IF unit.fn = "search_for_homes" THEN [BaseWorld EXCEPT !.ignored = unit.ignored]
           ELSE BaseWorld
    /\ m = [fs |-> WorldFs(w), news |-> <<>>, events |-> <<>>, calls |-> <<>>, exc |-> "",
            head |-> <<>>, gitlog |-> <<>>]
    /\ now = 1
    /\ run = 1
    /\ pc = "setup"
    /\ var_users = {}
    /\ plan = <<>>
    /\ todo = <<>>
    /\ homes = <<>>
    /\ gen = <<>>
    /\ has_program_files = FALSE
    /\ start_time = 0

\* list(parse_rules(app)) for application A
ParseRulesUnit ==
    /\ unit.fn = "parse_rules"
    /\ ~unit.done
    /\ unit' = [unit EXCEPT !.done = TRUE,
                            !.ret = ParseLines([ignore_rules |-> { <<appA, n>> : n \in unit.ignore }],
                                               appA, unit.lines)]

\* list(search_for_homes(start, max_depth))
SearchForHomesUnit ==
    /\ unit.fn = "search_for_homes"
    /\ ~unit.done
    /\ unit' = [unit EXCEPT !.done = TRUE,
                            !.ret = SearchForHomes(unit.fs, unit.start, unit.max_depth, unit.rev)]

UnitNext ==
    /\ \/ ParseRulesUnit
       \/ SearchForHomesUnit
       \/ GetListUnit
       \/ GitManagerNew
       \/ GitManagerRunUnit
       \/ GitManagerIsDirtyUnit
    /\ UNCHANGED <<w, m, now, run, pc, var_users, plan, todo, homes, gen, has_program_files,
                   start_time>>

UnitSpec == UnitInit /\ [][UnitNext]_vars

\* t is s without its leading and trailing white space
IsTrimOf(t, s) ==
    \E i \in 1..(Len(s) + 1) : \E j \in 0..Len(s) :
        /\ t = SubSeq(s, i, j)
        /\ \A k \in 1..Len(s) : (k < i \/ k > j) => IsSpace(s[k])
        /\ t # <<>> => ~IsSpace(t[1]) /\ ~IsSpace(t[Len(t)])

Trimmed(s) == CHOOSE t \in { SubSeq(s, i, j) : i \in 1..(Len(s) + 1), j \in 0..Len(s) } : IsTrimOf(t, s)

\* the place of the first space of s, 0 when it has none
FirstSpace(s) ==
    IF \E k \in 1..Len(s) : s[k] = " "
    THEN CHOOSE k \in 1..Len(s) : s[k] = " " /\ \A j \in 1..(k - 1) : s[j] # " "
    ELSE 0

\* the text before the first space of the trimmed line (all of it when there
\* is no space), and the text after it
LineName(line) ==
    LET t == Trimmed(line) IN IF FirstSpace(t) = 0 THEN t ELSE SubSeq(t, 1, FirstSpace(t) - 1)
LineTemplate(line) ==
    LET t == Trimmed(line) IN IF FirstSpace(t) = 0 THEN <<>> ELSE SubSeq(t, FirstSpace(t) + 1, Len(t))

\* r lists f(i) for the members i of the index set `kept`, in rising order
ListsInOrder(r, kept, f(_)) ==
    /\ Len(r) = Cardinality(kept)
    /\ \A i \in kept : r[Cardinality({ k \in kept : k <= i })] = f(i)

PairOf(i) == <<LineName(unit.lines[i]), LineTemplate(unit.lines[i])>>
TrimmedPairOf(i) == <<Trimmed(LineName(unit.lines[i])), Trimmed(LineTemplate(unit.lines[i]))>>

\* C12 as stated: parse_rules yields, in file order, one (name, template)
\* pair per non-blank line; the name is the text before the first space of
\* the trimmed line, the template everything after it; and a rule is left
\* out exactly when the section has the key ignore_<name>.
C12_ParseRules ==
    (unit.fn = "parse_rules" /\ unit.done) =>
        ListsInOrder(unit.ret,
                     { i \in 1..Len(unit.lines) : /\ Trimmed(unit.lines[i]) # <<>>
                                                  /\ LineName(unit.lines[i]) \notin unit.ignore },
                     PairOf)

\* C12, amended: parse_rules yields, in file order, one pair per line that,
\* once trimmed, contains a space; the name is the text before the first
\* space and the template everything after it, each trimmed; and such a rule
\* is left out exactly when the section has the key ignore_<text before the
\* first space>.
C12_ParseRulesSpaced ==
    (unit.fn = "parse_rules" /\ unit.done) =>
        ListsInOrder(unit.ret,
                     { i \in 1..Len(unit.lines) : /\ FirstSpace(Trimmed(unit.lines[i])) # 0
                                                  /\ LineName(unit.lines[i]) \notin unit.ignore },
                     TrimmedPairOf)

\* C12 witness: a file of two rules with a tab-padded template was parsed,
\* and both rules came out in file order
C12_Witness ==
    /\ unit.fn = "parse_rules" /\ unit.done
    /\ unit.lines = << <<"b", " ", "a">>, <<"a", " ", "\t", "b">> >>
    /\ unit.ret = << <<<<"b">>, <<"a">>>>, <<<<"a">>, <<"b">>>> >>

RECURSIVE JoinWith(_, _)
\* the items written one after another with d between them
JoinWith(items, d) ==
    IF Len(items) = 1 THEN items[1] ELSE items[1] \o d \o JoinWith(Tail(items), d)

\* d occurs in s with its first character at place k
OccursAt(d, s, k) == k + Len(d) - 1 <= Len(s) /\ SubSeq(s, k, k + Len(d) - 1) = d

\* items is s cut at every occurrence of d, read from the left
IsSplitOf(items, s, d) ==
    /\ Len(items) >= 1
    /\ JoinWith(items, d) = s
    /\ \A i \in 1..Len(items) :
           \A k \in 1..Len(items[i]) :
               ~OccursAt(d, IF i < Len(items) THEN items[i] \o d ELSE items[i], k)

\* the divider in force: general.divider, a comma when none is configured
DividerOf(config) ==
    IF /\ <<"general">> \in config.sections
       /\ <<<<"general">>, <<"divider">>>> \in DOMAIN config.values
       /\ config.values[<<<<"general">>, <<"divider">>>>] # <<>>
    THEN config.values[<<<<"general">>, <<"divider">>>>]
    ELSE <<",">>

\* C13: get_list returns None when the section or the key is missing or the
\* value is empty once trimmed; otherwise the trimmed value cut at the
\* divider (a comma when none is configured), the items left unstripped.
C13_GetList ==
    (unit.fn = "get_list" /\ unit.done) =>
        IF \/ secS \notin unit.config.sections
           \/ <<secS, keyK>> \notin DOMAIN unit.config.values
           \/ Trimmed(unit.config.values[<<secS, keyK>>]) = <<>>
        THEN unit.ret = None
        ELSE /\ Len(unit.ret) = 1
             /\ IsSplitOf(unit.ret[1], Trimmed(unit.config.values[<<secS, keyK>>]),
                          DividerOf(unit.config))

\* C13 witness: "a, a" was split at the default comma and the second item
\* kept its leading space
C13_Witness ==
    /\ unit.fn = "get_list" /\ unit.done
    /\ <<"general">> \notin unit.config.sections
    /\ unit.ret = Some(<< <<"a">>, <<" ", "a">> >>)

\* the command line one call asks for
ArgvOf(call) == <<GitPath>> \o (IF call.op = "run" THEN call.params ELSE <<"status", "-s">>)

\* C14: the manager is a no-op when disabled: the subprocesses spawned are
\* exactly [binary, *params] for each call made with the manager enabled and
\* a binary present, in order, and none otherwise; is_dirty returns True
\* exactly when the manager is enabled and `git status -s` printed something.
C14_GitManagerNoOpWhenDisabled ==
    (unit.fn = "git_manager" /\ unit.state = "ready") =>
        /\ unit.spawned = IF unit.enabled /\ unit.which # None
                          THEN [i \in 1..Len(unit.calls) |-> ArgvOf(unit.calls[i])]
                          ELSE <<>>
        /\ \A i \in 1..Len(unit.calls) :
               unit.calls[i].op = "is_dirty" =>
                   (unit.calls[i].ret <=> (unit.enabled /\ unit.calls[i].stdout # ""))

\* C14 witness: a disabled manager was asked to run a command and whether the
\* repository is dirty, with changes present, and spawned nothing
C14_Witness ==
    /\ unit.fn = "git_manager" /\ unit.state = "ready"
    /\ ~unit.enabled /\ unit.which # None
    /\ Len(unit.calls) = 2
    /\ unit.calls[1].op = "run" /\ unit.calls[1].params = <<"add", "-A">>
    /\ unit.calls[2].op = "is_dirty" /\ unit.calls[2].stdout # ""
    /\ unit.spawned = <<>>

\* C15: copy_item copies a file only when the destination is missing or
\* strictly older than the source: no copy event has a destination whose
\* modification time was at or after the source's.
C15_NoCopyUnlessStrictlyNewer ==
    \A j \in Events :
        m.events[j].ev = "copy" => (m.events[j].dstm = -1 \/ m.events[j].dstm < m.events[j].srcm)

\* the symlinks of filesystem f
LinksOf(f) == { l \in DOMAIN f : f[l].kind = "link" }

\* event e of a call on path P wrote to the counterpart of source entry l in
\* the call's output directory, or read below target, what l points to
TouchesLink(e, l, target) ==
    /\ e.ev \in {"copy", "mkdir", "skip_mtime"}
    /\ LET c == m.calls[e.call]
           P == PathOf(c.path).parts
       IN  /\ IsUnder(l, P)
           /\ \/ IsUnder(e.dst, OutputDir(c.app, c.rule).parts \o SubSeq(l, Len(P) + 1, Len(l)))
              \/ IsUnder(e.src, target)

\* no event touches a symlink of f0, the filesystem before the first run
NoLinkTouched(f0) ==
    \A l \in LinksOf(f0) : \A j \in Events : ~TouchesLink(m.events[j], l, Resolve(f0, AbsPath(l)))

\* C16: copy_item never copies a symlink and never follows one: for a source
\* that is a symlink, and for a symlink inside a copied directory, nothing is
\* written to its place in the destination and nothing below its target is
\* read.
C16_SymlinksNeverCopied == NoLinkTouched(WorldFs(w))

\* C16 witness: a directory was copied (one of its files was written) and the
\* symlink inside it, which leads to a directory with a file, was skipped
C16_Witness ==
    \E j \in Events : \E k \in Events :
        /\ m.events[j].ev = "skip_symlink"
        /\ m.events[j].src = <<nE>>
        /\ m.events[k].ev = "copy"
        /\ m.events[k].call = m.events[j].call
        /\ m.events[k].src = HomeLoc \o <<nS, nQ>>

\* the names of directory p that match the pattern
Matching(f, p, pattern) == { n \in IterDir(f, p) : FnMatch(n, pattern) }

\* C17: in the glob branch the names recursed into are exactly those matching
\* the pattern in the source parent directory or in output/<app>/<rule_name>,
\* as the two directories were when the call began, and each name gets one
\* recursive call, names found only in the output included.
C17_GlobUnion ==
    [][\A i \in (Len(m.calls) + 1)..Len(m'.calls) :
          LET c      == m'.calls[i]
              parent == ParentOf(PathOf(c.path))
              glob   == NameOf(PathOf(c.path))
              names  == Matching(m.fs, parent, glob)
                            \cup Matching(m.fs, OutputDir(c.app, c.rule), glob)
              kids   == { k \in (i + 1)..Len(m'.calls) : m'.calls[k].caller = i }
          IN  (c.caller = 0 /\ c.outcome = "glob") =>
                  /\ \A n \in names :
                         Cardinality({ k \in kids : m'.calls[k].path = Str(Child(parent, n)) }) = 1
                  /\ \A k \in kids : \E n \in names : m'.calls[k].path = Str(Child(parent, n))
      ]_vars

\* C17 witness: a glob call recursed into a name of the source directory and
\* into z.v, which exists only in the output directory
C17_Witness ==
    \E i \in Calls : \E k \in Calls : \E j \in Calls :
        /\ m.calls[i].outcome = "glob"
        /\ m.calls[k].caller = i /\ m.calls[j].caller = i
        /\ m.calls[k].path = Str(AbsPath(HomeLoc \o <<nG, nZV>>))
        /\ m.calls[k].outcome = "missing"
        /\ m.calls[j].path = Str(AbsPath(HomeLoc \o <<nG, nAV>>))
        /\ m.calls[j].outcome = "direct"
        /\ IsFile(m.fs, AbsPath(OutLoc \o <<appA, nG, nZV>>))

\* the glob call i and one of the calls it made, k, agree on top_level and
\* on the trusted base
GlobChildBase(i, k) ==
    LET c == m.calls[i]
    IN  /\ m.calls[k].top
        /\ m.calls[k].base = IF c.base.set THEN c.base ELSE BaseOf(ParentOf(PathOf(c.path)))

\* C18 as stated: each recursive call of the glob branch uses the rule name
\* extended by the match's name when the match is a directory and the rule
\* name as it is otherwise, top_level = true, and the caller's trusted base
\* when set, else the glob's parent; a trusted base once set is handed on
\* unchanged.
C18_GlobRecursion ==
    \A k \in Calls :
        LET i == m.calls[k].caller
            n == NameOf(PathOf(m.calls[k].path))
        IN  i # 0 =>
              /\ m.calls[k].rule =
                    IF IsDir(m.fs, PathOf(m.calls[k].path))
                    THEN Str(Join(PathOf(m.calls[i].rule), PathOf(n)))
                    ELSE m.calls[i].rule
              /\ GlobChildBase(i, k)

\* C18, amended: each recursive call of the glob branch uses the rule name
\* extended by the match's name, whether the match is a directory or not,
\* top_level = true, and the caller's trusted base when set, else the glob's
\* parent; a trusted base once set is handed on unchanged.
C18_GlobRecursionExtended ==
    \A k \in Calls :
        LET i == m.calls[k].caller
            n == NameOf(PathOf(m.calls[k].path))
        IN  i # 0 =>
              /\ m.calls[i].outcome = "glob"
              /\ m.calls[k].rule = Str(Join(PathOf(m.calls[i].rule), PathOf(n)))
              /\ GlobChildBase(i, k)

\* C18 witness: one glob call with a trusted base and one without have each
\* recursed into a regular file
C18_Witness ==
    \E k \in Calls : \E j \in Calls :
        /\ m.calls[k].caller # 0 /\ m.calls[m.calls[k].caller].base.set
        /\ m.calls[k].outcome = "direct" /\ IsFile(m.fs, PathOf(m.calls[k].path))
        /\ m.calls[j].caller # 0 /\ ~m.calls[m.calls[j].caller].base.set
        /\ m.calls[j].outcome = "direct" /\ IsFile(m.fs, PathOf(m.calls[j].path))

\* the quarantine events
Quarantines == { j \in Events : m.events[j].ev = "quarantine" }

\* C19: quarantine never loses data: every item quarantined has an entry of
\* its own under output/__backup__, which no later quarantine overwrites or
\* removes (two items of one name quarantined in the same second included),
\* and each quarantine has its diagnostic.
C19_QuarantineNeverLosesData ==
    /\ \A j \in Quarantines : \A k \in Quarantines :
           j # k => m.events[j].dst # m.events[k].dst
    /\ \A j \in Quarantines :
           /\ IsUnder(m.events[j].dst, OutLoc \o <<BACKUP_DIR>>)
           /\ m.events[j].dst \in DOMAIN m.fs
    /\ Cardinality(Quarantines)
         = Cardinality({ n \in 1..Len(m.news) : m.news[n].kind = "quarantine" })

\* C20: with backlinking on, a top-level ingest of a variable-substituted
\* rule path that is already a symlink reaches the backlink branch: the
\* symlink is removed and created again, the original location ends up a
\* symlink to output/<app>/<rule_name>, and nothing is quarantined.
C20_SymlinkRelinked ==
    [][LET i == Len(m.calls) + 1 IN
       (/\ Len(m'.calls) >= i
        /\ w.backlink
        /\ m'.calls[i].caller = 0 /\ m'.calls[i].top /\ m'.calls[i].var # <<>>
        /\ IsSymlink(m.fs, PathOf(m'.calls[i].path)))
       => LET c   == m'.calls[i]
              new == { j \in (Len(m.events) + 1)..Len(m'.events) : m'.events[j].call = i }
              loc == LStat(m'.fs, PathOf(c.path)).loc
          IN  /\ \E j \in new : m'.events[j].ev = "unlink"
              /\ \E j \in new : m'.events[j].ev = "symlink"
              /\ \A j \in new : m'.events[j].ev # "quarantine"
              /\ IsSymlink(m'.fs, PathOf(c.path))
              /\ m'.fs[loc].target = OutputDir(c.app, c.rule)
      ]_vars

\* C21: every ingest_path call whose original path is, when the call ends, a
\* symlink whose target does not exist appends a dangling-symlink diagnostic
\* for that path, whichever branch the call went through.
C21_DanglingAudit ==
    [][LET i == Len(m.calls) + 1 IN
       (/\ Len(m'.calls) >= i
        /\ IsSymlink(m'.fs, PathOf(m'.calls[i].path))
        /\ ~Exists(m'.fs, PathOf(m'.calls[i].path)))
       => \E n \in (Len(m.news) + 1)..Len(m'.news) :
              /\ m'.news[n].kind = "dangling"
              /\ m'.news[n].path = Str(PathOf(m'.calls[i].path))
      ]_vars

vDOCUMENTS == <<"d", "o", "c", "u", "m", "e", "n", "t", "s">>
vINSTALLDIR == <<"i", "n", "s", "t", "a", "l", "l", "d", "i", "r">>
vPROGRAM_FILES == <<"p", "r", "o", "g", "r", "a", "m", "_", "f", "i", "l", "e", "s">>
vUBISOFT == <<"u", "b", "i", "s", "o", "f", "t">>
RootVariables == { vHOME, vAPPDATA, vDOCUMENTS, vINSTALLDIR, vPROGRAM_FILES, vUBISOFT }

\* the template holds one "$", and v follows it up to the next "/" or the end
HasOneToken(template, v) ==
    /\ Cardinality({ i \in 1..Len(template) : template[i] = "$" }) = 1
    /\ LET i == FindChar(template, "$", 1)
           j == FindChar(template, "/", i)
       IN  v = SubSeq(template, i + 1, IF j = 0 THEN Len(template) ELSE j - 1)

\* C22: once the rule files are loaded, every rule whose template holds
\* exactly one variable token $v, v one of the six root variables, has not
\* been ingested without a root, and its application is registered in the
\* reverse index under v.
C22_SingleTokenIndexed ==
    pc = "done" =>
        \A app \in Apps : \A rule \in RulesOf(app) : \A v \in RootVariables :
            HasOneToken(rule[2], v) =>
                /\ <<v, app>> \in var_users
                /\ \A i \in Calls :
                       (m.calls[i].app = app /\ m.calls[i].rule = rule[1])
                           => m.calls[i].var # <<>>

UsersFile == Child(Child(OutPath, UBISOFT_DIR), USERS_FILE)

\* the identifiers output/ubisoft/users.txt holds in filesystem f
CachedUsers(f) ==
    IF IsFile(f, UsersFile)
    THEN { ReadLines(f, UsersFile)[i] : i \in 1..Len(ReadLines(f, UsersFile)) }
    ELSE {}

\* the subdirectories of the vendor savegame directory below program_files
UserDirs(f, program_files) ==
    LET dir == Join(program_files, [abs |-> FALSE, parts |-> UBISOFT_SAVEGAMES])
    IN  { u \in ChildNames(f, dir.parts) : f[dir.parts \o <<u>>].kind = "dir" }

\* C23: the Ubisoft user cache only grows: no step drops an identifier from
\* output/ubisoft/users.txt, and each rewrite leaves it holding what it held
\* before united with the names of the subdirectories (not files) of the
\* vendor savegame directory.
C23_UbisoftCacheGrows ==
    [][/\ CachedUsers(m.fs) \subseteq CachedUsers(m'.fs)
       /\ (pc = "running" /\ todo = <<>> /\ plan # <<>> /\ Head(plan).op = "ubisoft")
            => /\ IsFile(m'.fs, UsersFile)
               /\ CachedUsers(m'.fs) = CachedUsers(m.fs) \cup UserDirs(m.fs, Head(plan).p)
      ]_vars

\* C23 witness: the cache was rewritten for a Program Files directory that
\* has user k only, and it holds j, known from before, as well as k
C23_Witness ==
    /\ CachedUsers(m.fs) = { nJ, nK }
    /\ UserDirs(m.fs, AbsPath(<<nW2>>)) = { nK }
    /\ UserDirs(m.fs, AbsPath(<<nW>>)) = { nJ }
    /\ ChildNames(m.fs, <<nW>> \o UBISOFT_SAVEGAMES) = { nJ, nF }
    /\ todo = <<>> /\ plan # <<>> /\ Head(plan).op # "ubisoft" /\ Head(plan).op # "candidate"

\* every level from start_dir down to d is a real directory (no symlink),
\* outside the ignored prefixes and without an ignore-listed name
ReachedPlainly(f, start_dir, d) ==
    /\ Len(d.parts) >= Len(start_dir.parts)
    /\ SubSeq(d.parts, 1, Len(start_dir.parts)) = start_dir.parts
    /\ \A k \in Len(start_dir.parts)..Len(d.parts) :
           LET loc == SubSeq(d.parts, 1, k)
           IN  /\ loc \in DOMAIN f
               /\ f[loc].kind = "dir"
               /\ ~IsPathIgnored(Str(AbsPath(loc)), cfg.ignored)
               /\ loc[Len(loc)] \notin HOMEFINDER_IGNORE_FOLDERS
LevelsBelow(start_dir, d) == Len(d.parts) - Len(start_dir.parts)
HasMarkerFolder(f, d) ==
    \E i \in 1..Len(HOMEFINDER_FIND_FOLDERS) :
        LET loc == d.parts \o <<HOMEFINDER_FIND_FOLDERS[i]>>
        IN  loc \in DOMAIN f /\ f[loc].kind = "dir"
HasMarkerEntry(f, d) ==
    \E i \in 1..Len(HOMEFINDER_FIND_FOLDERS) : d.parts \o <<HOMEFINDER_FIND_FOLDERS[i]>> \in DOMAIN f
IsProperPrefix(s, t) == Len(s) < Len(t) /\ SubSeq(t, 1, Len(s)) = s
PreOrder(ret) ==
    /\ \A i, j \in 1..Len(ret) : ret[i] = ret[j] => i = j
    /\ \A i, j \in 1..Len(ret) : IsProperPrefix(ret[i].parts, ret[j].parts) => i < j

\* C24: search_for_homes(start, max_depth) terminates and yields, a home
\* before any home nested inside it, exactly the directories that contain a
\* marker folder (.config or AppData), lie fewer than max_depth levels below
\* start and are reached without entering a symlinked directory, a directory
\* under an ignored path prefix or a directory with an ignore-listed name;
\* nested homes are each yielded.
C24_SearchForHomes ==
    (unit.fn = "search_for_homes" /\ unit.done) =>
        /\ PreOrder(unit.ret)
        /\ { unit.ret[i] : i \in 1..Len(unit.ret) }
             = { AbsPath(loc) : loc \in { l \in DOMAIN unit.fs :
                    /\ ReachedPlainly(unit.fs, unit.start, AbsPath(l))
                    /\ LevelsBelow(unit.start, AbsPath(l)) < unit.max_depth
                    /\ HasMarkerFolder(unit.fs, AbsPath(l)) } }
\* the same statement with the marker read as any entry of that name
C24_SearchForHomesAnyEntry ==
    (unit.fn = "search_for_homes" /\ unit.done) =>
        /\ PreOrder(unit.ret)
        /\ { unit.ret[i] : i \in 1..Len(unit.ret) }
             = { AbsPath(loc) : loc \in { l \in DOMAIN unit.fs :
                    /\ ReachedPlainly(unit.fs, unit.start, AbsPath(l))
                    /\ LevelsBelow(unit.start, AbsPath(l)) < unit.max_depth
                    /\ HasMarkerEntry(unit.fs, AbsPath(l)) } }

\* what is left to do after the head of the plan is still to be done
RestKept == \E k \in 0..Len(plan') : SubSeq(plan', k + 1, Len(plan')) = Tail(plan)

\* C25: a permission error raised while the candidates around a home are
\* listed, or while one candidate is probed, is caught and the search
\* continues: the rest of this home's variables and the later homes are still
\* processed.
C25_SearchSurvivesPermissionError ==
    [][(Step("program_files") \/ Step("candidate")) => (pc' = "running" /\ RestKept)]_vars

\* C27: every file or directory that ingestion writes by copying lies under
\* output/<app>/ inside the output repository, whatever the rule name (".."
\* segments and a leading slash included) and the glob match name.
C27_CopiesStayUnderApp ==
    \A i \in 1..Len(m.events) :
        m.events[i].ev \in {"copy", "mkdir"}
            => StartsWith(m.events[i].dst, OutLoc \o <<m.calls[m.events[i].call].app>>)

\* the entries of f outside the output repository, the directories that
\* lead to the repository left aside
Outside(f) ==
    [loc \in { l \in DOMAIN f : ~StartsWith(l, OutLoc) /\ ~StartsWith(OutLoc, l) } |-> f[loc]]

\* C26: with backlinking disabled nothing outside the output repository is
\* created, removed, renamed or modified by an ingest_path call: the source
\* tree is left unchanged by the whole run.
C26_SourceTreeUnchanged ==
    ~w.backlink => Outside(m.fs) = Outside(WorldFs(w))
\* the same statement over the rule files whose rule names are plain
C26_SourceTreeUnchangedPlainNames ==
    (~w.backlink /\ w.rules # 9) => Outside(m.fs) = Outside(WorldFs(w))
====
